---- MODULE Spec2Model ----
(***************************************************************************)
(* A model of the nodejs-tester backend: the five tables kept by the       *)
(* storage engine, the seeder (src/src/server/seed.ts), and the request    *)
(* handlers of the users, orders and products routers.                     *)
(*                                                                         *)
(* Money.  A DECIMAL(p,2) column holds an exact number of cents; the model *)
(* keeps such a column as an integer number of cents.  The handlers and    *)
(* the seeder turn a DECIMAL into a JavaScript number with parseFloat and  *)
(* compute with it; a JavaScript number is an IEEE-754 binary64 value,     *)
(* kept here as a sign, a 53-bit significand (a natural number written in  *)
(* base 2^16, most significant digit first) and a binary exponent, and every operation rounds    *)
(* to nearest, ties to even, as the hardware does.                         *)
(***************************************************************************)
EXTENDS Integers, Sequences, FiniteSets, TLC

(***************************************************************************)
(* Natural numbers of any size, written in base 2^16 (a "limb" is one      *)
(* digit), most significant limb first.  The model checker's integers are  *)
(* 32 bits wide and a binary64 significand is 53 bits wide.                *)
(***************************************************************************)
Base == 65536
LimbBits == 16

Max(a, b) == IF a > b THEN a ELSE b
Min(a, b) == IF a < b THEN a ELSE b
Abs(n) == IF n < 0 THEN -n ELSE n

ZeroLimbs(n) == [i \in 1..n |-> 0]

NatIsZero(a) == \A i \in 1..Len(a) : a[i] = 0

\* a without its leading zero limbs
NatStrip(a) ==
  IF NatIsZero(a) THEN << >>
  ELSE LET k == CHOOSE i \in 1..Len(a) : a[i] # 0 /\ \A j \in 1..(i - 1) : a[j] = 0
       IN  SubSeq(a, k, Len(a))

\* a with leading zero limbs up to n limbs
NatPad(a, n) == ZeroLimbs(n - Len(a)) \o a

\* the limbs of an integer 0 <= n < 2^31
NatFromInt(n) == << n \div Base, n % Base >>

\* the integer of a (which must be below 2^31)
RECURSIVE NatToInt(_)
NatToInt(a) ==
  IF a = << >> THEN 0
  ELSE Base * NatToInt(SubSeq(a, 1, Len(a) - 1)) + a[Len(a)]

\* the number of bits of a limb
LimbLen(x) == IF x = 0 THEN 0 ELSE CHOOSE k \in 1..LimbBits : 2^(k - 1) <= x /\ x < 2^k

\* the number of bits of a
NatBitLen(a) ==
  LET b == NatStrip(a)
  IN  IF b = << >> THEN 0 ELSE LimbBits * (Len(b) - 1) + LimbLen(b[1])

\* a + b + c for a and b of the same length and a carry c; one limb longer
RECURSIVE NatAddC(_, _, _)
NatAddC(a, b, c) ==
  IF a = << >> THEN << c >>
  ELSE LET n == Len(a)
           t == a[n] + b[n] + c
       IN  Append(NatAddC(SubSeq(a, 1, n - 1), SubSeq(b, 1, n - 1), t \div Base), t % Base)

NatAdd(a, b) ==
  LET n == Max(Len(a), Len(b)) IN NatAddC(NatPad(a, n), NatPad(b, n), 0)

\* a - b - c for a and b of the same length, a >= b + c
RECURSIVE NatSubC(_, _, _)
NatSubC(a, b, c) ==
  IF a = << >> THEN << >>
  ELSE LET n == Len(a)
           t == a[n] - b[n] - c
       IN  Append(NatSubC(SubSeq(a, 1, n - 1), SubSeq(b, 1, n - 1), IF t < 0 THEN 1 ELSE 0),
                  IF t < 0 THEN t + Base ELSE t)

NatSub(a, b) ==
  LET n == Max(Len(a), Len(b)) IN NatSubC(NatPad(a, n), NatPad(b, n), 0)

\* a < b
NatLess(a, b) ==
  LET n == Max(Len(a), Len(b))
      x == NatPad(a, n)
      y == NatPad(b, n)
  IN  \E i \in 1..n : x[i] < y[i] /\ \A j \in 1..(i - 1) : x[j] = y[j]

\* a * q + c for 0 <= q, c < 2^15
RECURSIVE NatMulC(_, _, _)
NatMulC(a, q, c) ==
  IF a = << >> THEN << c >>
  ELSE LET n == Len(a)
           t == a[n] * q + c
       IN  Append(NatMulC(SubSeq(a, 1, n - 1), q, t \div Base), t % Base)

NatMul(a, q) == NatMulC(a, q, 0)

\* a divided by 0 < d < 2^15, with the remainder r coming in from the left:
\* the quotient's limbs and the remainder
RECURSIVE NatDivC(_, _, _)
NatDivC(a, d, r) ==
  IF a = << >> THEN [quot |-> << >>, rem |-> r]
  ELSE LET t    == r * Base + a[1]
           rest == NatDivC(Tail(a), d, t % d)
       IN  [quot |-> << t \div d >> \o rest.quot, rem |-> rest.rem]

\* a * 2^s
NatShiftLeft(a, s) ==
  LET w  == s \div LimbBits
      r  == s % LimbBits
      a1 == << 0 >> \o a
      n  == Len(a1)
  IN  [i \in 1..n |->
         ((a1[i] * 2^r) % Base)
         + (IF i < n THEN a1[i + 1] \div 2^(LimbBits - r) ELSE 0)] \o ZeroLimbs(w)

\* floor(a / 2^s), and whether a nonzero part was cut off
NatShiftRight(a, s) ==
  LET n == Len(a)
      w == Min(s \div LimbBits, n)
      r == IF s \div LimbBits >= n THEN 0 ELSE s % LimbBits
      k == SubSeq(a, 1, n - w)
      d == SubSeq(a, n - w + 1, n)
  IN  [nat  |-> [i \in 1..(n - w) |->
                   (k[i] \div 2^r)
                   + (IF i > 1 THEN (k[i - 1] % 2^r) * 2^(LimbBits - r) ELSE 0)],
       lost |-> ~NatIsZero(d) \/ (n - w > 0 /\ k[n - w] % 2^r # 0)]

NatOdd(a) == a # << >> /\ a[Len(a)] % 2 = 1

(***************************************************************************)
(* JavaScript numbers (IEEE-754 binary64).  The value of a number x that   *)
(* is neither NaN nor zero is (-1)^neg * m * 2^e, with 2^52 <= m < 2^53    *)
(* kept in four limbs.                                                     *)
(***************************************************************************)
Precision == 53
SigLimbs == 4

NaN == [nan |-> TRUE, neg |-> FALSE, m |-> ZeroLimbs(SigLimbs), e |-> 0]
Zero == [nan |-> FALSE, neg |-> FALSE, m |-> ZeroLimbs(SigLimbs), e |-> 0]

IsZero(x) == ~x.nan /\ NatIsZero(x.m)

Double(neg, m, e) ==
  [nan |-> FALSE, neg |-> neg, m |-> NatPad(NatStrip(m), SigLimbs), e |-> e]

\* the binary64 nearest to (-1)^neg * (a + s) * 2^e, where s in [0,1) is zero
\* unless sticky: round to nearest, ties to even
RoundToDouble(neg, a, e, sticky) ==
  LET n == NatBitLen(a)
  IN  IF n = 0 THEN Zero
      ELSE IF n <= Precision
      THEN Double(neg, NatShiftLeft(a, Precision - n), e - (Precision - n))
      ELSE LET q    == NatShiftRight(a, n - Precision - 1)
               top  == NatShiftRight(q.nat, 1).nat
               rest == sticky \/ q.lost
               up   == NatOdd(q.nat) /\ (rest \/ NatOdd(top))
               inc  == NatAdd(top, << 1 >>)
           IN  IF ~up THEN Double(neg, top, e + (n - Precision))
               ELSE IF NatBitLen(inc) > Precision
               THEN Double(neg, NatShiftRight(inc, 1).nat, e + (n - Precision) + 1)
               ELSE Double(neg, inc, e + (n - Precision))

\* parseFloat(d.toString()) for a DECIMAL(p,2) value d of c cents: the binary64
\* nearest to c / 100
GuardLimbs == 4

parseFloat(c) ==
  LET d == NatDivC(NatFromInt(Abs(c)) \o ZeroLimbs(GuardLimbs), 100, 0)
  IN  RoundToDouble(c < 0, d.quot, -(LimbBits * GuardLimbs), d.rem # 0)

\* x * q for a number x and an integer q
Times(x, q) ==
  IF x.nan THEN NaN
  ELSE IF IsZero(x) \/ q = 0 THEN Zero
  ELSE RoundToDouble(x.neg # (q < 0), NatMul(x.m, Abs(q)), x.e, FALSE)

\* x + y
Plus(x, y) ==
  IF x.nan \/ y.nan THEN NaN
  ELSE IF IsZero(x) THEN y
  ELSE IF IsZero(y) THEN x
  ELSE LET e == Min(x.e, y.e)
           a == NatShiftLeft(x.m, x.e - e)
           b == NatShiftLeft(y.m, y.e - e)
       IN  IF x.neg = y.neg THEN RoundToDouble(x.neg, NatAdd(a, b), e, FALSE)
           ELSE IF NatLess(a, b) THEN RoundToDouble(y.neg, NatSub(b, a), e, FALSE)
           ELSE RoundToDouble(x.neg, NatSub(a, b), e, FALSE)

\* The value a DECIMAL(p,2) column stores for a number that is not NaN: the
\* nearest number of cents (the number is sent in decimal and the storage
\* engine rounds it to two places, half away from zero).
ToCents(x) ==
  IF IsZero(x) THEN 0
  ELSE LET p   == NatMul(x.m, 100)
           q   == IF x.e >= 0 THEN NatShiftLeft(p, x.e + 1)
                  ELSE NatShiftRight(p, (-x.e) - 1).nat
           mag == NatToInt(NatStrip(NatShiftRight(q, 1).nat)) + (IF NatOdd(q) THEN 1 ELSE 0)
       IN  IF x.neg THEN -mag ELSE mag


(***************************************************************************)
(* The state.                                                              *)
(*                                                                         *)
(* The five tables are sequences of rows in insertion order.  serial holds *)
(* the last value each table's id sequence handed out (a sequence value is *)
(* used up even when the transaction that took it rolls back).  now is the *)
(* clock the storage layer stamps createdAt with.                          *)
(*                                                                         *)
(* seed is the seeder process (its program counter and loop variables),    *)
(* post the order-creation requests in flight (one per connection slot),   *)
(* resp the last response a read request returned and walk a client        *)
(* reading the paginated user list page after page.                        *)
(***************************************************************************)
VARIABLES config, now, categories, products, users, orders, orderItems, serial,
          seed, post, resp, walk, fetch, view

tables == << categories, products, users, orders, orderItems, serial >>
vars == << config, now, categories, products, users, orders, orderItems, serial,
           seed, post, resp, walk, fetch, view >>

Range(s) == { s[i] : i \in 1..Len(s) }
Ids(table) == { table[i].id : i \in 1..Len(table) }
Row(table, id) == CHOOSE row \in Range(table) : row.id = id

\* the sequences without repetition of n elements of S
RECURSIVE Arrangements(_, _)
Arrangements(S, n) ==
  IF n = 0 THEN { << >> }
  ELSE UNION { { << x >> \o t : t \in Arrangements(S \ {x}, n - 1) } : x \in S }

\* A DECIMAL column's value: a number of cents, or NaN (which the storage
\* engine's numeric type holds as a value of its own).
Dec(c) == [nan |-> FALSE, cents |-> c]
DecNaN == [nan |-> TRUE, cents |-> 0]

\* what a DECIMAL(p,2) column stores for a JavaScript number
ToDecimal(x) == IF x.nan THEN DecNaN ELSE Dec(ToCents(x))

(***************************************************************************)
(* The seeder's inputs.  A configuration gives the number of rows of each  *)
(* kind (SEED_CONFIGS, scaled down); the random generator draws from the   *)
(* pools below.                                                            *)
(***************************************************************************)
\* the statuses seedOrders draws from
statuses == << "pending", "processing", "shipped", "delivered", "cancelled" >>

\* department names faker.commerce.department() can return (a sample)
DepartmentPool == { "Books", "Toys" }

\* e-mail addresses faker.internet.email() can return (a sample): an address is
\* kept as its index in the pool
EmailPool == 1..2

\* product names faker.commerce.productName() can return (a sample): a name is
\* kept as its rank in alphabetical order
ProductNamePool == { 1 }

\* prices, in cents, faker.commerce.price({min: 1, max: 1000}) can return (a sample)
PricePool == { 110, 500, 1000 }

\* faker.number.int({ min: 1, max: 5 })
MinQuantity == 1
MaxQuantity == 5

\* batch sizes of seedProducts, seedUsers and seedOrders
ProductBatchSize == 1000
UserBatchSize == 1000
OrderBatchSize == 500

\* The clock value at which the model starts and the length, in clock units, of
\* the two years seedOrders dates its orders over.
StartTime == 2
Lookback == 1

\* a configuration with products and users and no orders
ServerConfig ==
  [users |-> 1, categories |-> 1, products |-> 2, orders |-> 0,
   itemsPerOrder |-> [min |-> 1, max |-> 2]]

\* a configuration with orders
SeedConfig ==
  [users |-> 1, categories |-> 1, products |-> 2, orders |-> 1,
   itemsPerOrder |-> [min |-> 1, max |-> 2]]

(***************************************************************************)
(* Initial state: the schema exists and is empty, nothing runs.            *)
(***************************************************************************)
Slots == { 1 }

NoSerial == [categories |-> 0, products |-> 0, users |-> 0, orders |-> 0, orderItems |-> 0]
NoRows ==
  [categories |-> << >>, products |-> << >>, users |-> << >>, orders |-> << >>,
   orderItems |-> << >>]

\* the environment of a seeder process, with the defaults the README gives
DefaultEnv == [SEED_RESET |-> "true", SEED_RUN_ID |-> 1]

\* A seeder process that has just started: env is its environment, before the
\* rows the database held when it started, ids the run identifiers of the runs
\* before it; categoryNames and usedEmails are the sets of seedCategories and
\* seedUsers; error says that a statement has thrown, closed that
\* sequelize.close() has been called, exitCode is the status the process ended
\* with (-1 while it runs).
SeedStart ==
  [pc |-> "start", i |-> 0, batch |-> << >>, todo |-> { }, summary |-> << >>,
   run |-> 1, env |-> DefaultEnv, before |-> NoRows, ids |-> { },
   categoryNames |-> << >>, usedEmails |-> { }, error |-> FALSE, closed |-> FALSE,
   exitCode |-> -1]
NoBody == [userId |-> [k |-> "missing", v |-> 0], items |-> [k |-> "missing", v |-> << >>]]
NoTx == [orders |-> << >>, orderItems |-> << >>]
IdlePost ==
  [pc |-> "idle", body |-> NoBody, idx |-> 0, totalAmount |-> Zero, orderItems |-> << >>,
   tx |-> NoTx, orderId |-> 0, status |-> 0, json |-> << >>, calls |-> 0,
   before |-> << >>, served |-> 0]
NoResp == [route |-> "none"]
\* GET /users/:id/orders is not being served
NoFetch == [pc |-> "idle", id |-> 0, orders |-> << >>, items |-> << >>, json |-> << >>]

\* the UserList view is not on the screen
NoView == [pc |-> "unmounted", users |-> << >>, total |-> 0, loading |-> FALSE,
           mode |-> "paginated", page |-> 1, totalPages |-> 1, pending |-> << >>,
           fetched |-> 0]

NoWalk == [page |-> 0, pageSize |-> 0, totalPages |-> 0, seen |-> << >>]

InitOf(c, env) ==
  /\ config = c
  /\ now = StartTime
  /\ categories = << >>
  /\ products = << >>
  /\ users = << >>
  /\ orders = << >>
  /\ orderItems = << >>
  /\ serial = NoSerial
  /\ seed = [SeedStart EXCEPT !.env = env]
  /\ post = [r \in Slots |-> IdlePost]
  /\ resp = NoResp
  /\ walk = NoWalk
  /\ fetch = NoFetch
  /\ view = NoView

InitWith(c) == InitOf(c, DefaultEnv)

Init == InitWith(ServerConfig)

(***************************************************************************)
(* The seeder.  Every action is one round trip to the database together    *)
(* with the in-memory work that precedes and follows it.                   *)
(***************************************************************************)
\* a seed() that goes from the categories to the users
PhaseAfter_SkipProducts(p) ==
  IF p \in { "categories", "products" } /\ config.users > 0 THEN "users"
  ELSE IF p \in { "categories", "products", "users" } /\ config.orders > 0 THEN "orders"
  ELSE "summary"

\* the part of seed() that runs next once the part p has returned
PhaseAfter(p) ==
  IF p = "categories" /\ config.products > 0 THEN "products"
  ELSE IF p \in { "categories", "products" } /\ config.users > 0 THEN "users"
  ELSE IF p \in { "categories", "products", "users" } /\ config.orders > 0 THEN "orders"
  ELSE "summary"

\* sequelize.sync({ force: true }): every table is dropped and created again
SeedSync ==
  /\ seed.pc = "start"
  /\ categories' = << >>
  /\ products' = << >>
  /\ users' = << >>
  /\ orders' = << >>
  /\ orderItems' = << >>
  /\ serial' = NoSerial
  /\ seed' = [seed EXCEPT !.pc = "categories"]
  /\ UNCHANGED << config, now, post, resp, walk, fetch, view >>

\* seedCategories, one turn of the while loop: a department name is drawn and
\* added to the set categoryNames (kept in insertion order), which a name
\* already in it leaves as it is
SeedCategoryName ==
  /\ seed.pc = "categories"
  /\ Len(seed.categoryNames) < config.categories
  /\ \E name \in DepartmentPool :
       seed' = [seed EXCEPT !.categoryNames =
                  IF name \in Range(@) THEN @ ELSE Append(@, name)]
  /\ UNCHANGED << config, now, tables, post, resp, walk, fetch, view >>

\* seedCategories, after the loop: the names collected are inserted in one
\* statement
SeedCategories ==
  /\ seed.pc = "categories"
  /\ Len(seed.categoryNames) >= config.categories
  /\ LET names == seed.categoryNames
     IN  /\ categories' = categories \o
               [j \in 1..Len(names) |->
                  [id |-> serial.categories + j, name |-> names[j], createdAt |-> now]]
         /\ serial' = [serial EXCEPT !.categories = @ + Len(names)]
  /\ seed' = [seed EXCEPT !.pc = PhaseAfter("categories"), !.i = 0]
  /\ UNCHANGED << config, now, products, users, orders, orderItems, post, resp, walk, fetch, view >>

\* one turn of seedProducts' loop: a batch of products, each with a random
\* price and a random category, inserted in one statement
SeedProducts ==
  /\ seed.pc = "products"
  /\ seed.i < config.products
  /\ LET n == Min(ProductBatchSize, config.products - seed.i)
         done == seed.i + ProductBatchSize >= config.products
     IN  /\ \E name \in [1..n -> ProductNamePool], price \in [1..n -> PricePool],
                categoryId \in [1..n -> Ids(categories)] :
              products' = products \o
                [j \in 1..n |-> [id |-> serial.products + j, name |-> name[j], price |-> price[j],
                                 categoryId |-> categoryId[j], createdAt |-> now]]
         /\ serial' = [serial EXCEPT !.products = @ + n]
         /\ seed' = [seed EXCEPT !.i = IF done THEN 0 ELSE @ + ProductBatchSize,
                                 !.pc = IF done THEN PhaseAfter("products") ELSE @]
  /\ UNCHANGED << config, now, categories, users, orders, orderItems, post, resp, walk, fetch, view >>

\* one turn of seedUsers' loop: a batch of users with addresses not used
\* before, inserted in one statement (all rows of a statement get the same
\* createdAt)
SeedUsers ==
  /\ seed.pc = "users"
  /\ seed.i < config.users
  /\ LET n == Min(UserBatchSize, config.users - seed.i)
         done == seed.i + UserBatchSize >= config.users
     IN  /\ \E email \in Arrangements(EmailPool \ seed.usedEmails, n) :
              /\ users' = users \o
                   [j \in 1..n |-> [id |-> serial.users + j, email |-> email[j], createdAt |-> now]]
              /\ seed' = [seed EXCEPT !.i = IF done THEN 0 ELSE @ + UserBatchSize,
                                      !.pc = IF done THEN PhaseAfter("users") ELSE @,
                                      !.usedEmails = @ \cup Range(email)]
         /\ serial' = [serial EXCEPT !.users = @ + n]
  /\ UNCHANGED << config, now, categories, products, orders, orderItems, post, resp, walk, fetch, view >>

\* A JavaScript value that is an integer or undefined.
Num(n) == [k |-> "int", v |-> n]
Undefined == [k |-> "missing", v |-> 0]

\* a total that adds the price without the quantity
Multiply_PriceOnly(price, quantity) == price

\* price * quantity in JavaScript: a number times undefined is NaN
Multiply(price, quantity) ==
  IF quantity.k = "missing" THEN NaN ELSE Times(price, quantity.v)

\* the stored price of a product, read back as a JavaScript number
PriceOf(productId) == parseFloat(Row(products, productId).price)

\* total += price * quantity over the lines i.. of an order, in order
RECURSIVE AddLines(_, _, _)
AddLines(lines, i, total) ==
  IF i > Len(lines) THEN total
  ELSE LET t == Plus(total, Multiply(PriceOf(lines[i].productId), lines[i].quantity))
       IN  IF t.nan THEN NaN ELSE AddLines(lines, i + 1, t)

\* lines whose products are drawn one by one, a product possibly twice
SeedLines_WithReplacement ==
  UNION { { [j \in 1..k |-> [productId |-> p[j], quantity |-> Num(q[j])]] :
              p \in [1..k -> Ids(products)],
              q \in [1..k -> MinQuantity..MaxQuantity] } :
          k \in config.itemsPerOrder.min..config.itemsPerOrder.max }

\* the lines the seeder can draw for one order: some products, no product
\* twice, each with a quantity
SeedLines ==
  UNION { { [j \in 1..Len(p) |-> [productId |-> p[j], quantity |-> Num(q[j])]] :
              p \in Arrangements(Ids(products), Min(k, Len(products))),
              q \in [1..Min(k, Len(products)) -> MinQuantity..MaxQuantity] } :
          k \in config.itemsPerOrder.min..config.itemsPerOrder.max }

\* item rows that name the order after their own
RECURSIVE ItemBatch_NextOrder(_, _, _, _)
ItemBatch_NextOrder(batch, lines, j, id) ==
  IF j > Len(batch) THEN << >>
  ELSE [l \in 1..Len(lines[j]) |->
          [id |-> id + l, orderId |-> batch[j].id + 1, productId |-> lines[j][l].productId,
           quantity |-> lines[j][l].quantity.v,
           price |-> ToCents(PriceOf(lines[j][l].productId))]]
       \o ItemBatch_NextOrder(batch, lines, j + 1, id + Len(lines[j]))

\* the item rows of the orders j.. of a batch, numbered from id + 1
RECURSIVE ItemBatch(_, _, _, _)
ItemBatch(batch, lines, j, id) ==
  IF j > Len(batch) THEN << >>
  ELSE [l \in 1..Len(lines[j]) |->
          [id |-> id + l, orderId |-> batch[j].id, productId |-> lines[j][l].productId,
           quantity |-> lines[j][l].quantity.v,
           price |-> ToCents(PriceOf(lines[j][l].productId))]]
       \o ItemBatch(batch, lines, j + 1, id + Len(lines[j]))

\* seedOrders, first statement of a turn of the loop: a batch of orders, each
\* for a random user, with a random status and a random date in the last two
\* years, inserted with a total of 0
SeedOrders ==
  /\ seed.pc = "orders"
  /\ seed.i < config.orders
  /\ LET n == Min(OrderBatchSize, config.orders - seed.i)
     IN  \E userId \in [1..n -> Ids(users)], status \in [1..n -> 1..Len(statuses)],
            orderDate \in [1..n -> (now - Lookback)..now] :
           LET rows == [j \in 1..n |->
                          [id |-> serial.orders + j, userId |-> userId[j],
                           status |-> statuses[status[j]], totalAmount |-> Dec(0),
                           createdAt |-> orderDate[j]]]
           IN  /\ orders' = orders \o rows
               /\ serial' = [serial EXCEPT !.orders = @ + n]
               /\ seed' = [seed EXCEPT !.pc = "items",
                             !.batch = [j \in 1..n |-> [id |-> rows[j].id, totalAmount |-> Zero]]]
  /\ UNCHANGED << config, now, categories, products, users, orderItems, post, resp, walk, fetch, view >>

\* seedOrders, second statement: the items of the batch's orders are drawn,
\* each order's total is added up in memory, and the items are inserted
SeedOrderItems ==
  /\ seed.pc = "items"
  /\ \E lines \in [1..Len(seed.batch) -> SeedLines] :
       LET rows == ItemBatch(seed.batch, lines, 1, serial.orderItems)
       IN  /\ orderItems' = orderItems \o rows
           /\ serial' = [serial EXCEPT !.orderItems = @ + Len(rows)]
           /\ seed' = [seed EXCEPT !.pc = "totals", !.todo = 1..Len(seed.batch),
                         !.batch = [j \in 1..Len(seed.batch) |->
                                      [seed.batch[j] EXCEPT !.totalAmount = AddLines(lines[j], 1, Zero)]]]
  /\ UNCHANGED << config, now, categories, products, users, orders, post, resp, walk, fetch, view >>

\* an update that also writes the order's total into the price of its items
SeedOrderTotal_Reprice(j) ==
  /\ seed.pc = "totals"
  /\ j \in seed.todo
  /\ orders' = [k \in 1..Len(orders) |->
                  IF orders[k].id = seed.batch[j].id
                  THEN [orders[k] EXCEPT !.totalAmount = ToDecimal(seed.batch[j].totalAmount)]
                  ELSE orders[k]]
  /\ orderItems' = [k \in 1..Len(orderItems) |->
                      IF orderItems[k].orderId = seed.batch[j].id
                      THEN [orderItems[k] EXCEPT !.price = ToCents(seed.batch[j].totalAmount)]
                      ELSE orderItems[k]]
  /\ LET last == seed.todo = { j }
         done == seed.i + OrderBatchSize >= config.orders
     IN  seed' = [seed EXCEPT !.todo = @ \ { j },
                    !.batch = IF last THEN << >> ELSE @,
                    !.i = IF last THEN (IF done THEN 0 ELSE @ + OrderBatchSize) ELSE @,
                    !.pc = IF last THEN (IF done THEN "summary" ELSE "orders") ELSE @]
  /\ UNCHANGED << config, now, categories, products, users, serial, post, resp, walk, fetch, view >>

\* seedOrders, the statements that follow: one update per order of the batch
\* writes the total, the updates running in no particular order
SeedOrderTotal(j) ==
  /\ seed.pc = "totals"
  /\ j \in seed.todo
  /\ orders' = [k \in 1..Len(orders) |->
                  IF orders[k].id = seed.batch[j].id
                  THEN [orders[k] EXCEPT !.totalAmount = ToDecimal(seed.batch[j].totalAmount)]
                  ELSE orders[k]]
  /\ LET last == seed.todo = { j }
         done == seed.i + OrderBatchSize >= config.orders
     IN  seed' = [seed EXCEPT !.todo = @ \ { j },
                    !.batch = IF last THEN << >> ELSE @,
                    !.i = IF last THEN (IF done THEN 0 ELSE @ + OrderBatchSize) ELSE @,
                    !.pc = IF last THEN (IF done THEN "summary" ELSE "orders") ELSE @]
  /\ UNCHANGED << config, now, categories, products, users, orderItems, serial, post, resp, walk, fetch, view >>

\* seed(), the end: the tables are counted for the summary and the connection
\* is closed
SeedClose ==
  /\ seed.pc = "summary"
  /\ seed' = [seed EXCEPT !.pc = "closed", !.closed = TRUE, !.exitCode = 0,
                !.summary = << Len(users), Len(categories), Len(products), Len(orders),
                               Len(orderItems) >>]
  /\ UNCHANGED << config, now, tables, post, resp, walk, fetch, view >>

Seeded == seed.pc = "closed"

\* a seed() that logs the error of a statement and goes on
SeedFail_Swallowed ==
  /\ seed.pc \in { "start", "categories", "products", "users", "orders", "items", "totals",
                    "summary" }
  /\ ~seed.error
  /\ seed' = [seed EXCEPT !.error = TRUE]
  /\ UNCHANGED << config, now, tables, post, resp, walk, fetch, view >>

\* The statement the seeder is at throws (the storage engine rejects it or
\* cannot be reached): it writes nothing, seed() logs the error, closes the
\* connection and throws, and the process exits with status 1.  Of the updates
\* of the totals, which run at once, those that did not fail may still be
\* written before the connection closes.
SeedFail ==
  /\ seed.pc \in { "start", "categories", "products", "users", "orders", "items", "totals",
                    "summary" }
  /\ \E K \in IF seed.pc = "totals" THEN (SUBSET seed.todo) \ { seed.todo } ELSE { { } } :
       orders' = [k \in 1..Len(orders) |->
                    IF \E j \in K : orders[k].id = seed.batch[j].id
                    THEN LET j == CHOOSE j \in K : orders[k].id = seed.batch[j].id
                         IN  [orders[k] EXCEPT !.totalAmount = ToDecimal(seed.batch[j].totalAmount)]
                    ELSE orders[k]]
  /\ seed' = [seed EXCEPT !.pc = "failed", !.error = TRUE, !.closed = TRUE, !.exitCode = 1]
  /\ UNCHANGED << config, now, categories, products, users, orderItems, serial, post, resp, walk, fetch, view >>

\* The seeder is run again, with an environment of the caller's choice.
MaxRuns == 2
EnvSample == [SEED_RESET : { "true", "false" }, SEED_RUN_ID : 1..MaxRuns]

SeedRun ==
  /\ seed.pc = "closed"
  /\ seed.run < MaxRuns
  /\ \E env \in EnvSample :
       seed' = [SeedStart EXCEPT !.run = seed.run + 1, !.env = env,
                  !.ids = seed.ids \cup { seed.env.SEED_RUN_ID },
                  !.before = [categories |-> categories, products |-> products,
                              users |-> users, orders |-> orders,
                              orderItems |-> orderItems]]
  /\ UNCHANGED << config, now, tables, post, resp, walk, fetch, view >>

(***************************************************************************)
(* POST /orders.                                                           *)
(*                                                                         *)
(* A request body has a userId (an integer or absent) and items: absent,   *)
(* something that is not an array, or an array of lines, each a productId  *)
(* and a quantity (an integer or absent).                                  *)
(***************************************************************************)
MaxItems == 2
MaxPosts == 1

UserIdSample == { Undefined, Num(1), Num(99) }
ProductIdSample == { 1, 2, 99 }
QuantitySample == { Undefined, Num(0), Num(1), Num(2), Num(3) }

LineSample == [productId : ProductIdSample, quantity : QuantitySample]
ItemsSample ==
  { [k |-> "missing", v |-> << >>], [k |-> "other", v |-> << >>] }
  \cup { [k |-> "array", v |-> v] : v \in UNION { [1..n -> LineSample] : n \in 0..MaxItems } }
BodySample == [userId : UserIdSample, items : ItemsSample]

\* order-creation requests: a valid one, one with a negative quantity, one for
\* a product that does not exist, one for a user that does not exist, one
\* without a userId
OrderSample ==
  { [userId |-> Num(1), items |-> [k |-> "array", v |-> << [productId |-> 1, quantity |-> Num(2)] >>]],
    [userId |-> Num(1), items |-> [k |-> "array", v |-> << [productId |-> 1, quantity |-> Num(-1)] >>]],
    [userId |-> Num(1), items |-> [k |-> "array", v |-> << [productId |-> 99, quantity |-> Num(1)] >>]],
    [userId |-> Num(99), items |-> [k |-> "array", v |-> << [productId |-> 2, quantity |-> Num(1)] >>]],
    [userId |-> Undefined, items |-> [k |-> "array", v |-> << [productId |-> 2, quantity |-> Num(1)] >>]] }

\* a validation that lets an empty array through
Invalid_EmptyAllowed(body) ==
  \/ body.userId.k = "missing"
  \/ body.userId.v = 0
  \/ body.items.k = "missing"
  \/ body.items.k # "array"

\* !userId || !items || !Array.isArray(items) || items.length === 0
Invalid(body) ==
  \/ body.userId.k = "missing"
  \/ body.userId.v = 0
  \/ body.items.k = "missing"
  \/ body.items.k # "array"
  \/ Len(body.items.v) = 0

\* writes made outside the transaction
CreateOptions_NoTransaction == [transaction |-> FALSE]

\* the options the handler passes to Order.create and OrderItem.bulkCreate
CreateOptions == [transaction |-> TRUE]

\* the error handler's response and the 400 of the validation
Respond(p, code, json) == [p EXCEPT !.pc = "done", !.status = code, !.json = json]

\* The request arrives with one of the given bodies: it is validated and, if
\* valid, a transaction begins.
PostOrderFrom(r, bodies) ==
  /\ Seeded
  /\ post[r].pc \in { "idle", "done" }
  /\ post[r].served < MaxPosts
  /\ \E body \in bodies :
     LET p == [IdlePost EXCEPT !.body = body, !.served = post[r].served + 1,
                               !.before = << orders, orderItems >>]
     IN  post' = [post EXCEPT ![r] =
                    IF Invalid(body) THEN Respond(p, 400, << >>)
                    ELSE [p EXCEPT !.pc = "tx", !.idx = 1, !.calls = 1]]
  /\ UNCHANGED << config, now, tables, seed, walk, fetch, view >>
  /\ resp' = NoResp

PostOrder(r) == PostOrderFrom(r, BodySample)

\* a handler that skips a line whose product is missing instead of throwing
OnMissingProduct_Skip(p) == [p EXCEPT !.idx = p.idx + 1, !.calls = p.calls + 1]

\* if (!product) throw: the transaction is rolled back and the error handler
\* answers 500
OnMissingProduct(p) == [Respond(p, 500, << >>) EXCEPT !.calls = p.calls + 2, !.tx = NoTx]

\* One turn of the loop over the items: the product is looked up; if there is
\* none the handler throws, the transaction is rolled back and the error
\* handler answers 500; otherwise the line is added to the total and kept.
PostFindProduct(r) ==
  /\ post[r].pc = "tx"
  /\ post[r].idx <= Len(post[r].body.items.v)
  /\ LET p == post[r]
         item == p.body.items.v[p.idx]
     IN  post' = [post EXCEPT ![r] =
                    IF item.productId \notin Ids(products)
                    THEN OnMissingProduct(p)
                    ELSE LET price == PriceOf(item.productId)
                         IN  [p EXCEPT !.idx = p.idx + 1, !.calls = p.calls + 1,
                                !.totalAmount = Plus(p.totalAmount, Multiply(price, item.quantity)),
                                !.orderItems = Append(p.orderItems,
                                   [productId |-> item.productId, quantity |-> item.quantity,
                                    price |-> price])]]
  /\ UNCHANGED << config, now, tables, seed, walk, fetch, view >>
  /\ resp' = NoResp

\* an orders table whose userId references nothing
References_Unchecked(table, id) == TRUE

\* references: { model: 'users', key: 'id' }: the foreign key of a row to be
\* inserted is the id of a row of the table it references
References(table, id) == id \in Ids(table)

\* an Order.create that numbers the order after the committed orders
PostCreateOrder_Count(r) ==
  /\ post[r].pc = "tx"
  /\ post[r].idx > Len(post[r].body.items.v)
  /\ LET p == post[r]
         row == [id |-> Len(orders) + 1, userId |-> p.body.userId.v, status |-> "pending",
                 totalAmount |-> ToDecimal(p.totalAmount), createdAt |-> now]
         ok == References(users, p.body.userId.v)
     IN  /\ serial' = [serial EXCEPT !.orders = @ + 1]
         /\ IF ~ok
            THEN /\ post' = [post EXCEPT ![r] =
                      [Respond(p, 500, << >>) EXCEPT !.calls = p.calls + 2, !.tx = NoTx]]
                 /\ UNCHANGED orders
            ELSE /\ post' = [post EXCEPT ![r] =
                      [p EXCEPT !.pc = "items", !.calls = p.calls + 1, !.orderId = row.id,
                         !.tx.orders = << row >>]]
                 /\ UNCHANGED orders
  /\ UNCHANGED << config, now, categories, products, users, orderItems, seed, walk, fetch, view >>
  /\ resp' = NoResp

\* Order.create: the order row is written, inside the transaction; a userId
\* that is no user's fails the foreign key and the transaction is rolled back.
PostCreateOrder(r) ==
  /\ post[r].pc = "tx"
  /\ post[r].idx > Len(post[r].body.items.v)
  /\ LET p == post[r]
         row == [id |-> serial.orders + 1, userId |-> p.body.userId.v, status |-> "pending",
                 totalAmount |-> ToDecimal(p.totalAmount), createdAt |-> now]
         ok == References(users, p.body.userId.v)
     IN  /\ serial' = [serial EXCEPT !.orders = @ + 1]
         /\ IF ~ok
            THEN /\ post' = [post EXCEPT ![r] =
                      [Respond(p, 500, << >>) EXCEPT !.calls = p.calls + 2, !.tx = NoTx]]
                 /\ UNCHANGED orders
            ELSE /\ post' = [post EXCEPT ![r] =
                      [p EXCEPT !.pc = "items", !.calls = p.calls + 1, !.orderId = row.id,
                         !.tx.orders = IF CreateOptions.transaction THEN << row >> ELSE << >>]]
                 /\ orders' = IF CreateOptions.transaction THEN orders ELSE Append(orders, row)
  /\ UNCHANGED << config, now, categories, products, users, orderItems, seed, walk, fetch, view >>
  /\ resp' = NoResp

\* OrderItem.bulkCreate: one row per kept line, inside the transaction; a
\* quantity that is absent takes the column's default
PostCreateItems(r) ==
  /\ post[r].pc = "items"
  /\ LET p == post[r]
         n == Len(p.orderItems)
         rows == [l \in 1..n |->
                    [id |-> serial.orderItems + l, orderId |-> p.orderId,
                     productId |-> p.orderItems[l].productId,
                     quantity |-> IF p.orderItems[l].quantity.k = "missing" THEN 1
                                  ELSE p.orderItems[l].quantity.v,
                     price |-> ToCents(p.orderItems[l].price)]]
     IN  /\ serial' = [serial EXCEPT !.orderItems = @ + n]
         /\ post' = [post EXCEPT ![r] =
                      [p EXCEPT !.pc = "commit", !.calls = p.calls + 1,
                         !.tx.orderItems = IF CreateOptions.transaction THEN rows ELSE << >>]]
         /\ orderItems' = IF CreateOptions.transaction THEN orderItems ELSE orderItems \o rows
  /\ UNCHANGED << config, now, categories, products, users, orders, seed, walk, fetch, view >>
  /\ resp' = NoResp

\* The callback returns and the transaction commits: its rows become visible,
\* all at once.
PostCommit(r) ==
  /\ post[r].pc = "commit"
  /\ orders' = orders \o post[r].tx.orders
  /\ orderItems' = orderItems \o post[r].tx.orderItems
  /\ post' = [post EXCEPT ![r] = [@ EXCEPT !.pc = "fetch", !.calls = @ + 1, !.tx = NoTx]]
  /\ UNCHANGED << config, now, categories, products, users, serial, seed, walk, fetch, view >>
  /\ resp' = NoResp

\* an order row with its item rows, as a query with include: ['items'] returns it
WithItems(order) ==
  [order |-> order,
   items |-> SelectSeq(orderItems, LAMBDA item : item.orderId = order.id)]

\* Order.findByPk(result.id, { include: ['items'] }) and the 201 response
PostRespond(r) ==
  /\ post[r].pc = "fetch"
  /\ post' = [post EXCEPT ![r] =
                [Respond(post[r], 201,
                         IF post[r].orderId \in Ids(orders)
                         THEN << WithItems(Row(orders, post[r].orderId)) >> ELSE << >>)
                   EXCEPT !.calls = @ + 1]]
  /\ UNCHANGED << config, now, tables, seed, walk, fetch, view >>
  /\ resp' = NoResp

(***************************************************************************)
(* Read requests.  Each is answered from the committed rows; resp is the   *)
(* response (it is dropped as soon as a write request moves on).           *)
(***************************************************************************)
Quiet == \A r \in Slots : post[r].pc \in { "idle", "done" }

\* the client holds no response and is not reading page after page
Ready == Seeded /\ resp = NoResp /\ walk = NoWalk

\* ORDER BY key: a row comes before another if its key does; rows with equal
\* keys come in the order the engine happens to produce, here one of the two
\* orders of the ids
TieBreaks == { "up", "down" }

Before(a, b, dir) == IF dir = "DESC" THEN a > b ELSE a < b

Reverse(s) == [i \in 1..Len(s) |-> s[Len(s) + 1 - i]]

\* the sequences i.. of a sequence of sequences, joined
RECURSIVE Join(_, _)
Join(seqs, i) == IF i > Len(seqs) THEN << >> ELSE seqs[i] \o Join(seqs, i + 1)

\* The rows of a table (which holds them by ascending id) in that order: the
\* keys in order and, for each key, the rows that have it.
Sort(table, key, dir, tie) ==
  LET keys == { table[i][key] : i \in 1..Len(table) }
      first(k) == Cardinality({ x \in keys : Before(x, k, dir) })
      rows(k) == SelectSeq(table, LAMBDA row : row[key] = k)
  IN  Join([i \in 1..Cardinality(keys) |->
              LET k == CHOOSE x \in keys : first(x) = i - 1
              IN  IF tie = "up" THEN rows(k) ELSE Reverse(rows(k))], 1)

\* the orderings ORDER BY key DESC can return
SortedDesc(table, key) == { Sort(table, key, "DESC", tie) : tie \in TieBreaks }

ItemsOf(orderId) == SelectSeq(orderItems, LAMBDA item : item.orderId = orderId)
ItemsFor(productId) == SelectSeq(orderItems, LAMBDA item : item.productId = productId)

\* GET /orders/:id
GetOrder(id) ==
  /\ Ready
  /\ resp' = IF id \in Ids(orders)
             THEN LET order == Row(orders, id)
                  IN  [route |-> "/orders/:id", status |-> 200,
                       json |-> [order |-> order, user |-> Row(users, order.userId),
                                 items |-> ItemsOf(id)]]
             ELSE [route |-> "/orders/:id", status |-> 404,
                   json |-> [error |-> "Not Found", message |-> "Order not found"]]
  /\ UNCHANGED << config, now, tables, seed, post, walk, fetch, view >>

\* sum + item.quantity over the items i.., as the reduce does
RECURSIVE SumQuantity(_, _, _)
SumQuantity(items, i, sum) ==
  IF i > Len(items) THEN sum ELSE SumQuantity(items, i + 1, sum + items[i].quantity)

\* sum + (item.quantity * parseFloat(item.price.toString())) over the items i..
RECURSIVE SumRevenue(_, _, _)
SumRevenue(items, i, sum) ==
  IF i > Len(items) THEN sum
  ELSE LET t == Plus(sum, Times(parseFloat(items[i].price), items[i].quantity))
       IN  IF t.nan THEN NaN ELSE SumRevenue(items, i + 1, t)

\* SUM(oi.quantity * oi.price) over the items i.., in cents
RECURSIVE SqlSumRevenue(_, _, _)
SqlSumRevenue(items, i, sum) ==
  IF i > Len(items) THEN sum
  ELSE SqlSumRevenue(items, i + 1, sum + items[i].quantity * items[i].price)

\* the rows of GET /products/report, one per product in table order: the
\* totals are folded over the product's items in JavaScript numbers
ReportRows ==
  [p \in 1..Len(products) |->
     LET items == ItemsFor(products[p].id)
     IN  [id |-> products[p].id,
          category |-> Row(categories, products[p].categoryId).name,
          totalSold |-> SumQuantity(items, 1, 0),
          totalRevenue |-> SumRevenue(items, 1, Zero),
          orderCount |-> Len(items)]]

\* the row of GET /products/report-optimized for one product: the totals are
\* the database's aggregates, the revenue an exact numeric (kept in cents)
ReportOptimizedRow(product) ==
  LET items == ItemsFor(product.id)
  IN  [id |-> product.id,
       category |-> Row(categories, product.categoryId).name,
       totalSold |-> SumQuantity(items, 1, 0),
       totalRevenue |-> SqlSumRevenue(items, 1, 0),
       orderCount |-> Cardinality({ items[i].id : i \in 1..Len(items) })]

\* the results in ascending order of revenue
ReportOptimizedResults_Ascending ==
  { Sort([p \in 1..Len(products) |-> ReportOptimizedRow(products[p])], "totalRevenue", "ASC", tie) :
      tie \in TieBreaks }

\* the results GET /products/report-optimized can return: ORDER BY "totalRevenue" DESC
ReportOptimizedResults ==
  SortedDesc([p \in 1..Len(products) |-> ReportOptimizedRow(products[p])], "totalRevenue")

\* GET /products/report
GetReport ==
  /\ Ready
  /\ Quiet
  /\ resp' = [route |-> "/products/report", status |-> 200,
              json |-> [data |-> ReportRows, total |-> Len(ReportRows),
                        warning |-> "This report uses inefficient joins and in-memory calculations"]]
  /\ UNCHANGED << config, now, tables, seed, post, walk, fetch, view >>

\* GET /products/report-optimized
GetReportOptimized ==
  /\ Ready
  /\ Quiet
  /\ \E report \in ReportOptimizedResults :
       resp' = [route |-> "/products/report-optimized", status |-> 200,
                json |-> [data |-> report, total |-> Len(report)]]
  /\ UNCHANGED << config, now, tables, seed, post, walk, fetch, view >>

\* the rows of a user's orders
OrdersOf(userId) == SelectSeq(orders, LAMBDA order : order.userId = userId)

\* GET /users/:id/orders: the user's orders, newest first, then for each order
\* its items and for each item its product, query after query
UserOrders(list) ==
  [o \in 1..Len(list) |->
     LET items == ItemsOf(list[o].id)
     IN  [order |-> list[o],
          items |-> [l \in 1..Len(items) |->
                       [item |-> items[l], product |-> Row(products, items[l].productId)]]]]

\* GET /users/:id/orders-optimized: the same orders with items, products and,
\* nested in each product, its category, in one query
UserOrdersOptimized(list) ==
  [o \in 1..Len(list) |->
     LET items == ItemsOf(list[o].id)
     IN  [order |-> list[o],
          items |-> [l \in 1..Len(items) |->
                       LET product == Row(products, items[l].productId)
                       IN  [item |-> items[l],
                            product |-> [id |-> product.id, name |-> product.name,
                                         price |-> product.price,
                                         categoryId |-> product.categoryId,
                                         createdAt |-> product.createdAt,
                                         category |-> Row(categories, product.categoryId)]]]]]

GetUserOrders(id) ==
  /\ Ready
  /\ Quiet
  /\ \E list \in SortedDesc(OrdersOf(id), "createdAt") :
       resp' = [route |-> "/users/:id/orders", status |-> 200, id |-> id,
                json |-> [data |-> UserOrders(list), total |-> Len(list),
                          warning |-> "This endpoint demonstrates N+1 query problem"]]
  /\ UNCHANGED << config, now, tables, seed, post, walk, fetch, view >>

GetUserOrdersOptimized(id) ==
  /\ Ready
  /\ Quiet
  /\ \E list \in SortedDesc(OrdersOf(id), "createdAt") :
       resp' = [route |-> "/users/:id/orders-optimized", status |-> 200, id |-> id,
                json |-> [data |-> UserOrdersOptimized(list), total |-> Len(list)]]
  /\ UNCHANGED << config, now, tables, seed, post, walk, fetch, view >>

(***************************************************************************)
(* GET /users/:id/orders, query by query.  After the first query one       *)
(* promise per order fetches the order's items and then, one promise per   *)
(* item, the item's product; the queries complete in any order, among      *)
(* themselves and among the steps of the write requests.  fetch.items[o]   *)
(* is the promise of order o: pending, or the items with the promises of   *)
(* their products.                                                         *)
(***************************************************************************)
Pending == [k |-> "pending", v |-> << >>]
Fulfilled(value) == [k |-> "fulfilled", v |-> value]

\* a Promise.all that is fulfilled as soon as the items of every order are there
PromiseAll_Outer(f) ==
  \A o \in 1..Len(f.items) : f.items[o].k = "fulfilled"

\* await Promise.all(...), in the handler and in each order's callback: every
\* promise of the array, and within it every promise of its own array, is
\* fulfilled
PromiseAll(f) ==
  \A o \in 1..Len(f.items) :
    /\ f.items[o].k = "fulfilled"
    /\ \A l \in 1..Len(f.items[o].v) : f.items[o].v[l].product.k = "fulfilled"

\* Order.findAll({ where: { userId: id }, order: [['createdAt', 'DESC']] })
FetchUserOrders(id) ==
  /\ Seeded
  /\ fetch.pc \in { "idle", "done" }
  /\ \E list \in SortedDesc(OrdersOf(id), "createdAt") :
       fetch' = [pc |-> "fetching", id |-> id, orders |-> list,
                 items |-> [o \in 1..Len(list) |-> Pending], json |-> << >>]
  /\ UNCHANGED << config, now, tables, seed, post, resp, walk, view >>

\* OrderItem.findAll({ where: { orderId: order.id } }) of the order at o
FetchItems(o) ==
  /\ fetch.pc = "fetching"
  /\ o \in 1..Len(fetch.orders)
  /\ fetch.items[o].k = "pending"
  /\ LET items == ItemsOf(fetch.orders[o].id)
     IN  fetch' = [fetch EXCEPT !.items[o] =
                     Fulfilled([l \in 1..Len(items) |-> [item |-> items[l], product |-> Pending]])]
  /\ UNCHANGED << config, now, tables, seed, post, resp, walk, view >>

\* Product.findByPk(item.productId) of the item at l of the order at o
FetchProduct(o, l) ==
  /\ fetch.pc = "fetching"
  /\ o \in 1..Len(fetch.orders)
  /\ fetch.items[o].k = "fulfilled"
  /\ l \in 1..Len(fetch.items[o].v)
  /\ fetch.items[o].v[l].product.k = "pending"
  /\ LET productId == fetch.items[o].v[l].item.productId
     IN  fetch' = [fetch EXCEPT !.items[o].v[l].product =
                     IF productId \in Ids(products)
                     THEN Fulfilled(<< Row(products, productId) >>)
                     ELSE Fulfilled(<< >>)]
  /\ UNCHANGED << config, now, tables, seed, post, resp, walk, view >>

\* res.json({ data: ordersWithItems, total: orders.length, warning })
FetchRespond ==
  /\ fetch.pc = "fetching"
  /\ PromiseAll(fetch)
  /\ fetch' = [fetch EXCEPT !.pc = "done",
                 !.json = [data |-> [o \in 1..Len(fetch.orders) |->
                                       [order |-> fetch.orders[o],
                                        items |-> [l \in 1..Len(fetch.items[o].v) |->
                                                     [item |-> fetch.items[o].v[l].item,
                                                      product |-> fetch.items[o].v[l].product.v]]]],
                           total |-> Len(fetch.orders),
                           warning |-> "This endpoint demonstrates N+1 query problem"]]
  /\ UNCHANGED << config, now, tables, seed, post, resp, walk, view >>

(***************************************************************************)
(* Pagination.  A query parameter is absent or a text, kept as the         *)
(* sequence of its characters.                                             *)
(***************************************************************************)
Absent == [k |-> "absent", v |-> << >>]
Text(chars) == [k |-> "text", v |-> chars]

DigitValue ==
  "0" :> 0 @@ "1" :> 1 @@ "2" :> 2 @@ "3" :> 3 @@ "4" :> 4 @@
  "5" :> 5 @@ "6" :> 6 @@ "7" :> 7 @@ "8" :> 8 @@ "9" :> 9

\* the value of the longest run of digits at the head of a text, after acc
RECURSIVE DigitsValue(_, _, _)
DigitsValue(chars, i, acc) ==
  IF i > Len(chars) \/ chars[i] \notin DOMAIN DigitValue THEN acc
  ELSE DigitsValue(chars, i + 1, 10 * acc + DigitValue[chars[i]])

\* parseInt: leading blanks are skipped, a sign is read, then the digits that
\* follow; no digit there, or no text at all, gives NaN
parseInt(q) ==
  IF q.k = "absent" THEN [nan |-> TRUE, v |-> 0]
  ELSE LET chars == q.v
           blanks == { i \in 0..Len(chars) : \A j \in 1..i : chars[j] = " " }
           b == CHOOSE i \in blanks : \A j \in blanks : j <= i
           signed == b < Len(chars) /\ chars[b + 1] \in { "-", "+" }
           d == IF signed THEN b + 2 ELSE b + 1
       IN  IF d > Len(chars) \/ chars[d] \notin DOMAIN DigitValue
           THEN [nan |-> TRUE, v |-> 0]
           ELSE [nan |-> FALSE,
                 v |-> IF signed /\ chars[b + 1] = "-" THEN -DigitsValue(chars, d, 0)
                       ELSE DigitsValue(chars, d, 0)]

\* x || d, for x the result of parseInt: NaN and 0 are falsy
OrElse(x, d) == IF x.nan \/ x.v = 0 THEN d ELSE x.v

\* const page = parseInt(req.query.page as string) || 1
PageOf(query) == OrElse(parseInt(query.page), 1)

\* const pageSize = Math.min(parseInt(req.query.pageSize as string) || 20, 100)
PageSizeOf(query) == Min(OrElse(parseInt(query.pageSize), 20), 100)

\* const offset = (page - 1) * pageSize
OffsetOf(query) == (PageOf(query) - 1) * PageSizeOf(query)

\* totalPages, with Math.floor for Math.ceil
TotalPages_Floor(count, pageSize) == count \div pageSize

\* Math.ceil(count / pageSize), for a pageSize above 0
TotalPages(count, pageSize) == (count + pageSize - 1) \div pageSize

\* The response of a paginated endpoint for the rows in the order the query
\* produced them.  The engine rejects a negative LIMIT or OFFSET and the error
\* handler answers 500.
Paginated(route, query, list) ==
  LET page == PageOf(query)
      pageSize == PageSizeOf(query)
      offset == OffsetOf(query)
      count == Len(list)
  IN  IF pageSize < 0 \/ offset < 0
      THEN [route |-> route, status |-> 500, query |-> query,
            limit |-> pageSize, offset |-> offset, json |-> << >>]
      ELSE [route |-> route, status |-> 200, query |-> query,
            limit |-> pageSize, offset |-> offset,
            json |-> [data |-> SubSeq(list, offset + 1, Min(offset + pageSize, count)),
                      total |-> count, page |-> page, pageSize |-> pageSize,
                      totalPages |-> TotalPages(count, pageSize)]]

PageSample ==
  { Absent, Text(<< "a", "b", "c" >>), Text(<< "0" >>), Text(<< "-", "1" >>),
    Text(<< "1" >>), Text(<< "2" >>), Text(<< "3" >>) }
PageSizeSample ==
  { Absent, Text(<< "a", "b", "c" >>), Text(<< "0" >>), Text(<< "-", "5" >>),
    Text(<< "1" >>), Text(<< "2" >>), Text(<< "1", "0", "0" >>), Text(<< "1", "0", "1" >>),
    Text(<< "1", "5", "0" >>), Text(<< "2", "x" >>) }
QuerySample == [page : PageSample, pageSize : PageSizeSample]

\* GET /users: every user, newest first
GetUsers ==
  /\ Ready
  /\ \E tie \in TieBreaks :
       LET list == Sort(users, "createdAt", "DESC", tie)
       IN  resp' = [route |-> "/users", status |-> 200,
                    json |-> [data |-> list, total |-> Len(list),
                              warning |-> "This endpoint has no pagination and may be slow with large datasets"]]
  /\ UNCHANGED << config, now, tables, seed, post, walk, fetch, view >>

\* GET /users/paginated
GetUsersPaginated ==
  /\ Ready
  /\ \E query \in QuerySample, tie \in TieBreaks :
       resp' = Paginated("/users/paginated", query, Sort(users, "createdAt", "DESC", tie))
  /\ UNCHANGED << config, now, tables, seed, post, walk, fetch, view >>

\* GET /orders: each order with its user
GetOrders ==
  /\ Ready
  /\ \E query \in QuerySample, tie \in TieBreaks :
       LET list == Sort(orders, "createdAt", "DESC", tie)
       IN  resp' = Paginated("/orders", query,
                     [i \in 1..Len(list) |->
                        [id |-> list[i].id, order |-> list[i], user |-> Row(users, list[i].userId)]])
  /\ UNCHANGED << config, now, tables, seed, post, walk, fetch, view >>

\* GET /products: each product with its category, by name
GetProducts ==
  /\ Ready
  /\ \E query \in QuerySample, tie \in TieBreaks :
       LET list == Sort(products, "name", "ASC", tie)
       IN  resp' = Paginated("/products", query,
                     [i \in 1..Len(list) |->
                        [id |-> list[i].id, product |-> list[i],
                         category |-> Row(categories, list[i].categoryId)]])
  /\ UNCHANGED << config, now, tables, seed, post, walk, fetch, view >>

\* the text of a number above 0
RECURSIVE Digits(_)
Digits(n) ==
  LET d == CHOOSE c \in DOMAIN DigitValue : DigitValue[c] = n % 10
  IN  IF n < 10 THEN << d >> ELSE Append(Digits(n \div 10), d)

MaxWalkPages == 3
WalkPageSizes == { 1, 2, 100 }

\* the client asks GET /users/paginated for page p of its walk
WalkPage(p, pageSize, tie) ==
  Paginated("/users/paginated", [page |-> Text(Digits(p)), pageSize |-> Text(Digits(pageSize))],
            Sort(users, "createdAt", "DESC", tie))

\* The client starts reading the paginated user list: page 1, which also
\* tells it the number of pages.
WalkStart ==
  /\ Ready
  /\ \E pageSize \in WalkPageSizes, tie \in TieBreaks :
       LET r == WalkPage(1, pageSize, tie)
       IN  /\ r.json.totalPages <= MaxWalkPages
           /\ walk' = [page |-> 1, pageSize |-> pageSize, totalPages |-> r.json.totalPages,
                       seen |-> r.json.data]
  /\ UNCHANGED << config, now, tables, seed, post, resp, fetch, view >>

\* the client reads the next page, up to the last
WalkNext ==
  /\ Seeded
  /\ walk.page >= 1
  /\ walk.page < walk.totalPages
  /\ \E tie \in TieBreaks :
       LET r == WalkPage(walk.page + 1, walk.pageSize, tie)
       IN  walk' = [walk EXCEPT !.page = @ + 1, !.seen = @ \o r.json.data]
  /\ UNCHANGED << config, now, tables, seed, post, resp, fetch, view >>

WalkDone == walk.page >= 1 /\ walk.page >= walk.totalPages

\* the client is done with the response, or with the pages it read
Forget ==
  /\ resp # NoResp \/ WalkDone
  /\ resp' = NoResp
  /\ walk' = NoWalk
  /\ UNCHANGED << config, now, tables, seed, post, fetch, view >>

(***************************************************************************)
(* The UserList view.  It shows the users, their total and the number of   *)
(* pages of the last response it received; view.pending are the requests   *)
(* it has sent and that have not been answered, each with the mode and the *)
(* page it was sent for.  Every request is answered, in no particular      *)
(* order.                                                                  *)
(***************************************************************************)
\* const [pageSize] = useState(20)
ViewPageSize == 20

\* requests the view sends at most
MaxFetches == 4

\* usersApi.getPaginated(page, pageSize) and usersApi.getAll(): the body of the
\* server's response
UsersResponse(mode, page, tie) ==
  IF mode = "paginated" THEN WalkPage(page, ViewPageSize, tie).json
  ELSE LET list == Sort(users, "createdAt", "DESC", tie)
       IN  [data |-> list, total |-> Len(list),
            warning |-> "This endpoint has no pagination and may be slow with large datasets"]

\* fetchUsers until its await, for the mode and page of the render v
fetchUsers(v) ==
  [v EXCEPT !.loading = TRUE, !.fetched = @ + 1,
            !.pending = Append(@, [mode |-> v.mode, page |-> v.page])]

\* useEffect(() => { fetchUsers() }, [mode, page]) after a render: the effect
\* runs if the mode or the page has changed
Rendered(v) == IF v.mode = view.mode /\ v.page = view.page THEN v ELSE fetchUsers(v)

\* the view is put on the screen and its effect runs for the first time
ViewMount ==
  /\ Seeded
  /\ view.pc = "unmounted"
  /\ view' = fetchUsers([NoView EXCEPT !.pc = "mounted"])
  /\ UNCHANGED << config, now, tables, seed, post, resp, walk, fetch >>

\* a toggle button is clicked: handleModeChange(newMode)
handleModeChange(newMode) ==
  /\ view.pc = "mounted"
  /\ view.fetched < MaxFetches
  /\ view' = Rendered([view EXCEPT !.mode = newMode, !.page = 1])
  /\ UNCHANGED << config, now, tables, seed, post, resp, walk, fetch >>

\* Previous is clicked: setPage((p) => Math.max(1, p - 1))
ViewPrevious ==
  /\ view.pc = "mounted"
  /\ view.fetched < MaxFetches
  /\ ~view.loading
  /\ view.mode = "paginated"
  /\ view.page # 1
  /\ view' = Rendered([view EXCEPT !.page = Max(1, @ - 1)])
  /\ UNCHANGED << config, now, tables, seed, post, resp, walk, fetch >>

\* Next is clicked: setPage((p) => Math.min(totalPages, p + 1))
ViewNext ==
  /\ view.pc = "mounted"
  /\ view.fetched < MaxFetches
  /\ ~view.loading
  /\ view.mode = "paginated"
  /\ view.page # view.totalPages
  /\ view' = Rendered([view EXCEPT !.page = Min(view.totalPages, @ + 1)])
  /\ UNCHANGED << config, now, tables, seed, post, resp, walk, fetch >>

\* fetchUsers after its await: the response to the request at i of
\* view.pending arrives and is shown
ViewReceive(i) ==
  /\ view.pc = "mounted"
  /\ i \in 1..Len(view.pending)
  /\ \E tie \in TieBreaks :
       LET request == view.pending[i]
           data == UsersResponse(request.mode, request.page, tie)
       IN  view' = [view EXCEPT
                      !.users = data.data,
                      !.total = data.total,
                      !.totalPages = IF "totalPages" \in DOMAIN data THEN data.totalPages ELSE 1,
                      !.loading = FALSE,
                      !.pending = SubSeq(@, 1, i - 1) \o SubSeq(@, i + 1, Len(@))]
  /\ UNCHANGED << config, now, tables, seed, post, resp, walk, fetch >>

(***************************************************************************)
(* Searches.  A date in a query is the text of a clock value, an amount    *)
(* the text of a whole number, a status a text of one symbol.              *)
(***************************************************************************)
\* a query parameter that is present and not the empty text
Truthy(q) == q.k = "text" /\ q.v # << >>

\* new Date('2020-01-01'), on the model's clock
Date2020 == 0

\* new Date(text)
DateOf(q) == DigitsValue(q.v, 1, 0)

\* a window that starts now when no start is given
WindowOf_FromNow(query) ==
  [from |-> IF Truthy(query.startDate) THEN DateOf(query.startDate) ELSE now,
   to |-> IF Truthy(query.endDate) THEN DateOf(query.endDate) ELSE now]

\* [new Date(startDate || '2020-01-01'), new Date(endDate || new Date().toISOString())]
WindowOf(query) ==
  [from |-> IF Truthy(query.startDate) THEN DateOf(query.startDate) ELSE Date2020,
   to |-> IF Truthy(query.endDate) THEN DateOf(query.endDate) ELSE now]

\* createdAt BETWEEN from AND to
Between(t, w) == w.from <= t /\ t <= w.to

\* parseFloat(minAmount): the number at the head of the text, NaN without one
MinAmountOf(q) ==
  IF q.v[1] \notin DOMAIN DigitValue THEN NaN ELSE parseFloat(100 * DigitsValue(q.v, 1, 0))

\* "totalAmount" >= x: the numeric type puts NaN above every number
AtLeast(total, x) == IF x.nan THEN total.nan ELSE total.nan \/ total.cents >= ToCents(x)

\* a where clause that leaves the status out
OrderWhere_NoStatus(query, order) ==
  /\ (Truthy(query.startDate) \/ Truthy(query.endDate))
       => Between(order.createdAt, WindowOf(query))
  /\ Truthy(query.minAmount) => AtLeast(order.totalAmount, MinAmountOf(query.minAmount))

\* the where clause GET /orders/search builds, applied to an order
OrderWhere(query, order) ==
  /\ (Truthy(query.startDate) \/ Truthy(query.endDate))
       => Between(order.createdAt, WindowOf(query))
  /\ Truthy(query.status) => << order.status >> = query.status.v
  /\ Truthy(query.minAmount) => AtLeast(order.totalAmount, MinAmountOf(query.minAmount))

\* the orders of the search, each with its user and its items, newest first
SearchOrders(query, tie) ==
  LET list == Sort(SelectSeq(orders, LAMBDA order : OrderWhere(query, order)),
                   "createdAt", "DESC", tie)
  IN  [i \in 1..Len(list) |->
         [id |-> list[i].id, order |-> list[i], user |-> Row(users, list[i].userId),
          items |-> ItemsOf(list[i].id)]]

MaxTicks == 1
DateSample == { Absent } \cup { Text(Digits(t)) : t \in 1..(StartTime + MaxTicks) }
StatusSample == { Absent, Text(<< "pending" >>), Text(<< "shipped" >>) }
AmountSample == { Absent, Text(<< >>), Text(<< "0" >>), Text(<< "4" >>) }
SearchSample ==
  [startDate : DateSample, endDate : DateSample, status : StatusSample,
   minAmount : AmountSample]

\* GET /orders/search
GetOrdersSearch ==
  /\ Ready
  /\ Quiet
  /\ \E query \in SearchSample, tie \in TieBreaks :
       LET list == SearchOrders(query, tie)
       IN  resp' = [route |-> "/orders/search", status |-> 200, query |-> query,
                    json |-> [data |-> list, total |-> Len(list),
                              warning |-> "This query may be slow due to missing indexes"]]
  /\ UNCHANGED << config, now, tables, seed, post, walk, fetch, view >>

\* GET /users/search/by-date: the window is always applied and the rows come in
\* no stated order
GetUsersByDate ==
  /\ Ready
  /\ Quiet
  /\ \E query \in [startDate : DateSample, endDate : DateSample], tie \in TieBreaks :
       LET found == SelectSeq(users, LAMBDA user : Between(user.createdAt, WindowOf(query)))
           list == IF tie = "up" THEN found ELSE Reverse(found)
       IN  resp' = [route |-> "/users/search/by-date", status |-> 200, query |-> query,
                    json |-> [data |-> list, total |-> Len(list),
                              warning |-> "This query performs a full table scan (createdAt not indexed)"]]
  /\ UNCHANGED << config, now, tables, seed, post, walk, fetch, view >>

(***************************************************************************)
(* Lookups of one row by the id in the path, a text.                       *)
(***************************************************************************)
\* findByPk: the engine compares the integer column id with the text; a text
\* that is not a number is an error of the query
FindByPk(table, param) ==
  IF \E i \in 1..Len(param.v) : param.v[i] \notin DOMAIN DigitValue
  THEN [k |-> "error", id |-> 0]
  ELSE LET id == DigitsValue(param.v, 1, 0)
       IN  [k |-> IF id \in Ids(table) THEN "row" ELSE "null", id |-> id]

\* The response of a lookup: the error handler's 500 when the query failed,
\* the 404 when it found no row, else the entity.
Lookup(route, param, found, message, entity) ==
  IF found.k = "error"
  THEN [route |-> route, param |-> param, status |-> 500,
        json |-> [error |-> "Internal Server Error"]]
  ELSE IF found.k = "null"
  THEN [route |-> route, param |-> param, status |-> 404,
        json |-> [error |-> "Not Found", message |-> message]]
  ELSE [route |-> route, param |-> param, status |-> 200, json |-> entity]

IdSample == { Text(<< "1" >>), Text(<< "9" >>), Text(<< "a", "b", "c" >>) }

\* a product with its category
WithCategory(product) ==
  [product |-> product, category |-> Row(categories, product.categoryId)]

\* GET /users/:id
GetUser(param) ==
  /\ Ready
  /\ LET found == FindByPk(users, param)
     IN  resp' = Lookup("/users/:id", param, found, "User not found", Row(users, found.id))
  /\ UNCHANGED << config, now, tables, seed, post, walk, fetch, view >>

\* GET /orders/:id, for the id as the path gives it
GetOrderById(param) ==
  /\ Ready
  /\ LET found == FindByPk(orders, param)
     IN  resp' = Lookup("/orders/:id", param, found, "Order not found",
                   [order |-> Row(orders, found.id),
                    user |-> Row(users, Row(orders, found.id).userId),
                    items |-> ItemsOf(found.id)])
  /\ UNCHANGED << config, now, tables, seed, post, walk, fetch, view >>

\* GET /orders/:id/full: the order, its user with up to 10 of the user's
\* orders, and its items, each with its product, the product's category and up
\* to 5 of the product's order items
GetOrderFull(param) ==
  /\ Ready
  /\ LET found == FindByPk(orders, param)
         order == Row(orders, found.id)
         items == ItemsOf(found.id)
     IN  resp' = Lookup("/orders/:id/full", param, found, "Order not found",
                   [data |->
                      [order |-> order,
                       user |-> [user |-> Row(users, order.userId),
                                 orders |-> SubSeq(OrdersOf(order.userId), 1,
                                                   Min(10, Len(OrdersOf(order.userId))))],
                       items |-> [i \in 1..Len(items) |->
                                    [item |-> items[i],
                                     product |-> WithCategory(Row(products, items[i].productId)),
                                     orderItems |-> SubSeq(ItemsFor(items[i].productId), 1,
                                                      Min(5, Len(ItemsFor(items[i].productId))))]]],
                    warning |-> "This query has deeply nested includes which can be slow"])
  /\ UNCHANGED << config, now, tables, seed, post, walk, fetch, view >>

\* GET /products/:id
GetProduct(param) ==
  /\ Ready
  /\ LET found == FindByPk(products, param)
     IN  resp' = Lookup("/products/:id", param, found, "Product not found",
                   WithCategory(Row(products, found.id)))
  /\ UNCHANGED << config, now, tables, seed, post, walk, fetch, view >>

(***************************************************************************)
(* The other read routes.                                                  *)
(***************************************************************************)
\* GET /users/export/all: every user with the user's orders, each with its
\* items, each with its product
GetUsersExport ==
  /\ Ready
  /\ Quiet
  /\ LET list == [u \in 1..Len(users) |->
                   LET mine == OrdersOf(users[u].id)
                   IN  [user |-> users[u],
                        orders |-> [o \in 1..Len(mine) |->
                                      LET items == ItemsOf(mine[o].id)
                                      IN  [order |-> mine[o],
                                           items |-> [l \in 1..Len(items) |->
                                                        [item |-> items[l],
                                                         product |-> Row(products, items[l].productId)]]]]]]
     IN  resp' = [route |-> "/users/export/all", status |-> 200,
                  json |-> [data |-> list, total |-> Len(list),
                            warning |-> "This endpoint loads all data into memory"]]
  /\ UNCHANGED << config, now, tables, seed, post, walk, fetch, view >>

\* SUM("totalAmount") over the orders i.. of a list, after sum: NaN once an
\* amount is NaN
RECURSIVE SumTotals(_, _, _)
SumTotals(list, i, sum) ==
  IF i > Len(list) THEN Dec(sum)
  ELSE IF list[i].totalAmount.nan THEN DecNaN
  ELSE SumTotals(list, i + 1, sum + list[i].totalAmount.cents)

DaysSample == { Absent, Text(<< "1" >>), Text(<< "x" >>) }

\* GET /orders/report/daily: the orders created in the last days days (30 when
\* the query has none; a day is one unit of the clock), grouped by createdAt,
\* newest first.  A days that is not a number makes an invalid date, which the
\* query fails on.
GetDailyReport ==
  /\ Ready
  /\ Quiet
  /\ \E days \in DaysSample :
       LET back == IF days = Absent THEN [nan |-> FALSE, v |-> 30] ELSE parseInt(days)
           startDate == now - back.v
           keys == { t \in { orders[i].createdAt : i \in 1..Len(orders) } : t >= startDate }
           rows == [k \in keys |-> SelectSeq(orders, LAMBDA order : order.createdAt = k)]
           first(k) == Cardinality({ x \in keys : x > k })
           report == [i \in 1..Cardinality(keys) |->
                        LET k == CHOOSE x \in keys : first(x) = i - 1
                        IN  [date |-> k, orderCount |-> Len(rows[k]),
                             totalRevenue |-> SumTotals(rows[k], 1, 0),
                             averageOrderValue |-> [sum |-> SumTotals(rows[k], 1, 0),
                                                    count |-> Len(rows[k])]]]
       IN  resp' = IF back.nan
                   THEN [route |-> "/orders/report/daily", status |-> 500,
                         json |-> [error |-> "Internal Server Error"]]
                   ELSE [route |-> "/orders/report/daily", status |-> 200,
                         json |-> [data |-> report,
                                   warning |-> "This aggregation query may be slow without proper indexes"]]
  /\ UNCHANGED << config, now, tables, seed, post, walk, fetch, view >>

\* A text to search product names for is kept as the names that contain it.
ProductSearchSample ==
  [query : { Absent, Text(<< >>), Text(<< 0 >>), Text(<< 1 >>) },
   category : { Absent, Text(<< "1" >>), Text(<< "9" >>) }]

\* GET /products/search: the products whose name contains the text and whose
\* category is the given one, each with its category, by name
GetProductsSearch ==
  /\ Ready
  /\ Quiet
  /\ \E query \in ProductSearchSample, tie \in TieBreaks :
       LET found == SelectSeq(products, LAMBDA product :
                      /\ Truthy(query.query) => product.name \in Range(query.query.v)
                      /\ Truthy(query.category)
                           => product.categoryId = DigitsValue(query.category.v, 1, 0))
           list == Sort(found, "name", "ASC", tie)
       IN  resp' = [route |-> "/products/search", status |-> 200,
                    json |-> [data |-> [i \in 1..Len(list) |-> WithCategory(list[i])],
                              total |-> Len(list),
                              warning |-> "LIKE query with leading wildcard is slow"]]
  /\ UNCHANGED << config, now, tables, seed, post, walk, fetch, view >>

\* the departments in alphabetical order
DepartmentRank == "Books" :> 1 @@ "Toys" :> 2

\* GET /products/categories: every category with the number of its products,
\* by name
GetCategories ==
  /\ Ready
  /\ Quiet
  /\ \E tie \in TieBreaks :
       LET rows == [i \in 1..Len(categories) |->
                      [id |-> categories[i].id, name |-> DepartmentRank[categories[i].name],
                       category |-> categories[i],
                       productCount |-> Len(SelectSeq(products, LAMBDA product :
                                                        product.categoryId = categories[i].id))]]
           list == Sort(rows, "name", "ASC", tie)
       IN  resp' = [route |-> "/products/categories", status |-> 200,
                    json |-> [data |-> list, total |-> Len(list)]]
  /\ UNCHANGED << config, now, tables, seed, post, walk, fetch, view >>

\* time passes
Tick ==
  /\ resp = NoResp
  /\ walk = NoWalk
  /\ now < StartTime + MaxTicks
  /\ now' = now + 1
  /\ UNCHANGED << config, tables, seed, post, resp, walk, fetch, view >>

(***************************************************************************)
(* A database as the seeder leaves it for a configuration of n categories  *)
(* (one at most), n products, n users and n orders of one item: the users  *)
(* made in one batch, the orders dated over the seeder's window.           *)
(***************************************************************************)
SmallRows == 3
ManyRows == 101
RowCounts == (0..SmallRows) \cup { ManyRows - 1, ManyRows }

InitSeeded(n) ==
  /\ config = [users |-> n, categories |-> Min(n, 1), products |-> n, orders |-> n,
               itemsPerOrder |-> [min |-> 1, max |-> 1]]
  /\ now = StartTime
  /\ categories = [j \in 1..Min(n, 1) |-> [id |-> j, name |-> "Books", createdAt |-> StartTime]]
  /\ products = [j \in 1..n |-> [id |-> j, name |-> 1, price |-> 500, categoryId |-> 1,
                                 createdAt |-> StartTime]]
  /\ users = [j \in 1..n |-> [id |-> j, email |-> j, createdAt |-> StartTime]]
  /\ orders = [j \in 1..n |-> [id |-> j, userId |-> 1 + (j % n), status |-> "pending",
                               totalAmount |-> Dec(500), createdAt |-> StartTime - (j % (Lookback + 1))]]
  /\ orderItems = [j \in 1..n |-> [id |-> j, orderId |-> j, productId |-> j, quantity |-> 1,
                                   price |-> 500]]
  /\ serial = [categories |-> Min(n, 1), products |-> n, users |-> n, orders |-> n, orderItems |-> n]
  /\ seed = [SeedStart EXCEPT !.pc = "closed", !.closed = TRUE, !.exitCode = 0,
              !.summary = << n, Min(n, 1), n, n, n >>]
  /\ post = [r \in Slots |-> IdlePost]
  /\ resp = NoResp
  /\ walk = NoWalk
  /\ fetch = NoFetch
  /\ view = NoView

InitPages == \E n \in RowCounts : InitSeeded(n)

NextPages ==
  \/ GetUsers
  \/ GetUsersPaginated
  \/ GetOrders
  \/ GetProducts
  \/ WalkStart
  \/ WalkNext
  \/ Forget

SpecPages == InitPages /\ [][NextPages]_vars

Next ==
  \/ SeedSync
  \/ SeedCategoryName
  \/ SeedCategories
  \/ SeedProducts
  \/ SeedUsers
  \/ SeedClose
  \/ \E r \in Slots : PostOrder(r)
  \/ \E r \in Slots : PostFindProduct(r)
  \/ \E r \in Slots : PostCreateOrder(r)
  \/ \E r \in Slots : PostCreateItems(r)
  \/ \E r \in Slots : PostCommit(r)
  \/ \E r \in Slots : PostRespond(r)
  \/ \E id \in 1..serial.orders : GetOrder(id)
  \/ GetReport
  \/ GetReportOptimized
  \/ \E id \in Ids(users) : GetUserOrders(id)
  \/ \E id \in Ids(users) : GetUserOrdersOptimized(id)
  \/ Forget

Spec == Init /\ [][Next]_vars

(***************************************************************************)
(* The seeder alone, for a configuration with orders.                      *)
(***************************************************************************)
InitSeed == InitWith(SeedConfig)

NextSeed ==
  \/ SeedSync
  \/ SeedCategoryName
  \/ SeedCategories
  \/ SeedProducts
  \/ SeedUsers
  \/ SeedOrders
  \/ SeedOrderItems
  \/ \E j \in 1..Len(seed.batch) : SeedOrderTotal(j)
  \/ SeedClose
  \/ SeedFail

SpecSeed == InitSeed /\ [][NextSeed]_vars

(***************************************************************************)
(* The seeder for a configuration with one order of one item, then         *)
(* requests to the server.                                                 *)
(***************************************************************************)
LifeConfig ==
  [users |-> 1, categories |-> 1, products |-> 1, orders |-> 1,
   itemsPerOrder |-> [min |-> 1, max |-> 1]]

InitLife == InitWith(LifeConfig)

NextLife ==
  \/ SeedSync
  \/ SeedCategoryName
  \/ SeedCategories
  \/ SeedProducts
  \/ SeedUsers
  \/ SeedOrders
  \/ SeedOrderItems
  \/ \E j \in 1..Len(seed.batch) : SeedOrderTotal(j)
  \/ SeedClose
  \/ \E r \in Slots : PostOrderFrom(r, OrderSample)
  \/ \E r \in Slots : PostFindProduct(r)
  \/ \E r \in Slots : PostCreateOrder(r)
  \/ \E r \in Slots : PostCreateItems(r)
  \/ \E r \in Slots : PostCommit(r)
  \/ \E r \in Slots : PostRespond(r)
  \/ \E id \in 1..serial.orders : GetOrder(id)
  \/ Forget

SpecLife == InitLife /\ [][NextLife]_vars

(***************************************************************************)
(* The seeder run twice, in any environment.                               *)
(***************************************************************************)
InitRuns == \E env \in EnvSample : InitOf(ServerConfig, env)

NextRuns ==
  \/ SeedSync
  \/ SeedCategoryName
  \/ SeedCategories
  \/ SeedProducts
  \/ SeedUsers
  \/ SeedClose
  \/ SeedRun

SpecRuns == InitRuns /\ [][NextRuns]_vars

(***************************************************************************)
(* The seeder at each of its three sizes.  SEED_CONFIGS is scaled down to   *)
(* the pools above: faker's commerce.department() has 22 names, of which    *)
(* DepartmentPool keeps 2, so the 10 categories of small become 1 (fewer    *)
(* than the pool holds) and the 25 of medium and the 50 of large become 3   *)
(* and 4 (more than the pool holds).  No statement fails here, and a step   *)
(* that can change the state is taken in the end: a loop that draws at      *)
(* random does draw a name it has not seen while there is one.              *)
(***************************************************************************)
SeedSize == { "small", "medium", "large" }

SEED_CONFIGS ==
  [size \in SeedSize |->
     CASE size = "small" ->
            [users |-> 1, categories |-> 1, products |-> 1, orders |-> 1,
             itemsPerOrder |-> [min |-> 1, max |-> 1]]
       [] size = "medium" ->
            [users |-> 2, categories |-> 3, products |-> 2, orders |-> 2,
             itemsPerOrder |-> [min |-> 1, max |-> 2]]
       [] size = "large" ->
            [users |-> 2, categories |-> 4, products |-> 3, orders |-> 3,
             itemsPerOrder |-> [min |-> 1, max |-> 2]]]

InitSizes == \E size \in SeedSize : InitWith(SEED_CONFIGS[size])

NextSizes ==
  \/ SeedSync
  \/ SeedCategoryName
  \/ SeedCategories
  \/ SeedProducts
  \/ SeedUsers
  \/ SeedOrders
  \/ SeedOrderItems
  \/ \E j \in 1..Len(seed.batch) : SeedOrderTotal(j)
  \/ SeedClose

\* the process keeps running: a statement that can be executed is executed in
\* the end.  SeedOrderItems can be taken exactly when seed.pc = "items" (an
\* order always has products to draw from) and is the one step that leads
\* from there to "totals"; SeedOrderTotal can be taken exactly when seed.pc =
\* "totals" and is the one step that takes an order out of seed.todo: the
\* weak fairness of the two is written out in these terms.
FairSizes ==
  /\ WF_vars(SeedSync)
  /\ WF_vars(SeedCategoryName)
  /\ WF_vars(SeedCategories)
  /\ WF_vars(SeedProducts)
  /\ WF_vars(SeedUsers)
  /\ WF_vars(SeedOrders)
  /\ (<>[](seed.pc = "items") => []<><<seed.pc = "items" /\ seed'.pc = "totals">>_vars)
  /\ (<>[](seed.pc = "totals") => []<><<seed.pc = "totals" /\ seed'.todo # seed.todo>>_vars)
  /\ WF_vars(SeedClose)

SpecSizes == InitSizes /\ [][NextSizes]_vars /\ FairSizes

(***************************************************************************)
(* Requests to a server whose database the seeder has filled with two      *)
(* users, a category, two products and two orders of one item, while time  *)
(* passes.                                                                 *)
(***************************************************************************)
InitShopFor(slots) ==
  /\ config = [users |-> 2, categories |-> 1, products |-> 2, orders |-> 2,
               itemsPerOrder |-> [min |-> 1, max |-> 1]]
  /\ now = StartTime
  /\ categories = << [id |-> 1, name |-> "Books", createdAt |-> StartTime] >>
  /\ products = << [id |-> 1, name |-> 1, price |-> 110, categoryId |-> 1, createdAt |-> StartTime],
                   [id |-> 2, name |-> 1, price |-> 500, categoryId |-> 1, createdAt |-> StartTime] >>
  /\ users = [j \in 1..2 |-> [id |-> j, email |-> j, createdAt |-> StartTime]]
  /\ orders = << [id |-> 1, userId |-> 1, status |-> "shipped", totalAmount |-> Dec(330),
                  createdAt |-> StartTime - Lookback],
                 [id |-> 2, userId |-> 2, status |-> "pending", totalAmount |-> Dec(500),
                  createdAt |-> StartTime] >>
  /\ orderItems = << [id |-> 1, orderId |-> 1, productId |-> 1, quantity |-> 3, price |-> 110],
                     [id |-> 2, orderId |-> 2, productId |-> 2, quantity |-> 1, price |-> 500] >>
  /\ serial = [categories |-> 1, products |-> 2, users |-> 2, orders |-> 2, orderItems |-> 2]
  /\ seed = [SeedStart EXCEPT !.pc = "closed", !.closed = TRUE, !.exitCode = 0,
              !.summary = << 2, 1, 2, 2, 2 >>]
  /\ post = [r \in slots |-> IdlePost]
  /\ resp = NoResp
  /\ walk = NoWalk
  /\ fetch = NoFetch
  /\ view = NoView

InitShop == InitShopFor(Slots)

NextRequests ==
  \/ Tick
  \/ \E r \in Slots : PostOrderFrom(r, OrderSample)
  \/ \E r \in Slots : PostFindProduct(r)
  \/ \E r \in Slots : PostCreateOrder(r)
  \/ \E r \in Slots : PostCreateItems(r)
  \/ \E r \in Slots : PostCommit(r)
  \/ \E r \in Slots : PostRespond(r)
  \/ GetOrdersSearch
  \/ GetUsersByDate
  \/ \E param \in IdSample : GetUser(param)
  \/ \E param \in IdSample : GetOrderById(param)
  \/ \E param \in IdSample : GetOrderFull(param)
  \/ \E param \in IdSample : GetProduct(param)
  \/ GetUsers
  \/ GetUsersPaginated
  \/ \E id \in Ids(users) : GetUserOrders(id)
  \/ \E id \in Ids(users) : GetUserOrdersOptimized(id)
  \/ GetUsersExport
  \/ GetOrders
  \/ GetDailyReport
  \/ GetProducts
  \/ GetProductsSearch
  \/ GetReport
  \/ GetReportOptimized
  \/ GetCategories
  \/ Forget

SpecRequests == InitShop /\ [][NextRequests]_vars

(***************************************************************************)
(* Two order-creation requests at once, on two connections, for products   *)
(* they share.                                                             *)
(***************************************************************************)
PairSlots == { 1, 2 }

PairSample ==
  { [userId |-> Num(1), items |-> [k |-> "array", v |-> << [productId |-> 1, quantity |-> Num(2)],
                                                            [productId |-> 2, quantity |-> Num(1)] >>]],
    [userId |-> Num(2), items |-> [k |-> "array", v |-> << [productId |-> 1, quantity |-> Num(3)] >>]],
    [userId |-> Num(1), items |-> [k |-> "array", v |-> << [productId |-> 2, quantity |-> Num(2)],
                                                            [productId |-> 1, quantity |-> Num(1)] >>]] }

InitPair == InitShopFor(PairSlots)

NextPair ==
  \/ \E r \in PairSlots : PostOrderFrom(r, PairSample)
  \/ \E r \in PairSlots : PostFindProduct(r)
  \/ \E r \in PairSlots : PostCreateOrder(r)
  \/ \E r \in PairSlots : PostCreateItems(r)
  \/ \E r \in PairSlots : PostCommit(r)
  \/ \E r \in PairSlots : PostRespond(r)

SpecPair == InitPair /\ [][NextPair]_vars

(***************************************************************************)
(* GET /users/:id/orders served query by query while orders are created.   *)
(***************************************************************************)
InitFetch == InitShopFor(Slots)

NextFetch ==
  \/ \E r \in Slots : PostOrderFrom(r, PairSample)
  \/ \E r \in Slots : PostFindProduct(r)
  \/ \E r \in Slots : PostCreateOrder(r)
  \/ \E r \in Slots : PostCreateItems(r)
  \/ \E r \in Slots : PostCommit(r)
  \/ \E r \in Slots : PostRespond(r)
  \/ \E id \in Ids(users) : FetchUserOrders(id)
  \/ \E o \in 1..Len(fetch.orders) : FetchItems(o)
  \/ \E o \in 1..Len(fetch.orders) : \E l \in 1..Len(fetch.items[o].v) : FetchProduct(o, l)
  \/ FetchRespond

SpecFetch == InitFetch /\ [][NextFetch]_vars

(***************************************************************************)
(* The UserList view in front of a seeded database.                        *)
(***************************************************************************)
InitView == \E n \in { SmallRows, ManyRows } : InitSeeded(n)

NextView ==
  \/ ViewMount
  \/ \E newMode \in { "paginated", "all" } : handleModeChange(newMode)
  \/ ViewPrevious
  \/ ViewNext
  \/ \E i \in 1..Len(view.pending) : ViewReceive(i)

SpecView == InitView /\ [][NextView]_vars

(***************************************************************************)
(* The properties.                                                         *)
(***************************************************************************)
\* a row of the slow report and a row of the fast report carry the same totals
\* (the fast report's exact revenue, read as a number, is the slow report's)
SameTotals(slow, fast) ==
  /\ slow.totalSold = fast.totalSold
  /\ slow.orderCount = fast.orderCount
  /\ slow.totalRevenue = parseFloat(fast.totalRevenue)

\* C1: whenever GET /products/report has answered, GET /products/report-optimized
\* on the same rows lists exactly the same product ids and, for every product,
\* the same totalSold, totalRevenue and orderCount.
C1_ReportsAgree ==
  resp.route = "/products/report" =>
    \A fast \in ReportOptimizedResults :
      /\ { resp.json.data[i].id : i \in 1..Len(resp.json.data) }
           = { fast[j].id : j \in 1..Len(fast) }
      /\ \A i \in 1..Len(resp.json.data), j \in 1..Len(fast) :
           resp.json.data[i].id = fast[j].id => SameTotals(resp.json.data[i], fast[j])

\* the exact sum of quantity * price over an order's item rows, as a DECIMAL
ItemsTotal(orderId) == Dec(SqlSumRevenue(ItemsOf(orderId), 1, 0))

\* C2: once seeding has completed, every persisted order's totalAmount is the
\* exact sum of quantity * price over its item rows.
C2_TotalIsSumOfItems ==
  Seeded => \A i \in 1..Len(orders) : orders[i].totalAmount = ItemsTotal(orders[i].id)

Stored == << orders, orderItems >>

\* C3: the order row a request creates and its item rows are visible together
\* or not at all: the committed rows hold either the order with one item row
\* per request line or neither, no committed item row lacks its order, and a
\* reader of GET /orders/:id that finds the order finds all its items.
C3_VisibleTogether ==
  /\ \A i \in 1..Len(orderItems) : orderItems[i].orderId \in Ids(orders)
  /\ \A r \in Slots :
       post[r].orderId # 0 =>
         /\ Len(ItemsOf(post[r].orderId))
              = IF post[r].orderId \in Ids(orders) THEN Len(post[r].body.items.v) ELSE 0
         /\ resp.route = "/orders/:id" /\ resp.status = 200
              /\ resp.json.order.id = post[r].orderId
              => Len(resp.json.items) = Len(post[r].body.items.v)

\* a reader looks for the order while its two item rows wait for the commit
C3_Witness ==
  \E r \in Slots :
    /\ post[r].pc = "commit"
    /\ Len(post[r].tx.orderItems) = 2
    /\ resp.route = "/orders/:id"
    /\ resp.status = 404

\* a request whose items are an array, one of them for a product that does not exist
NamesMissingProduct(body) ==
  /\ body.items.k = "array"
  /\ \E i \in 1..Len(body.items.v) : body.items.v[i].productId \notin Ids(products)

\* C4: a valid request one of whose items, in any position, names a product
\* that does not exist never changes the stored orders and items, and ends in
\* a failure response.
C4_MissingProductCreatesNothing ==
  \A r \in Slots :
    post[r].pc # "idle" /\ ~Invalid(post[r].body) /\ NamesMissingProduct(post[r].body) =>
      /\ Stored = post[r].before
      /\ post[r].tx = NoTx
      /\ post[r].pc = "done" => post[r].status = 500

\* the second of two items names the missing product and the request has failed
C4_Witness ==
  \E r \in Slots :
    /\ post[r].pc = "done"
    /\ post[r].status = 500
    /\ post[r].body.userId.v \in Ids(users)
    /\ Len(post[r].body.items.v) = 2
    /\ post[r].body.items.v[1].productId \in Ids(products)
    /\ post[r].body.items.v[2].productId \notin Ids(products)
    /\ post[r].idx = 2

\* the requests the claim names: no userId, no items, items that are not an
\* array, an empty array
BadRequest(body) ==
  \/ body.userId.k = "missing"
  \/ body.items.k = "missing"
  \/ body.items.k = "other"
  \/ body.items.k = "array" /\ body.items.v = << >>

\* C5: a request with no userId, no items, items that are not an array or an
\* empty array is answered 400 at once, without a call to the storage layer
\* and with the stored rows unchanged.
C5_BadRequestRejected ==
  \A r \in Slots :
    post[r].pc # "idle" /\ BadRequest(post[r].body) =>
      /\ post[r].pc = "done"
      /\ post[r].status = 400
      /\ post[r].calls = 0
      /\ Stored = post[r].before

\* a request with a userId and an empty array has been answered 400
C5_Witness ==
  \E r \in Slots :
    /\ post[r].pc = "done"
    /\ post[r].status = 400
    /\ post[r].body.userId = Num(1)
    /\ post[r].body.items = [k |-> "array", v |-> << >>]

\* every line of the request carries a quantity
HasQuantities(body) ==
  \A i \in 1..Len(body.items.v) : body.items.v[i].quantity.k = "int"

\* the sum of q_i * price(P_i) over the lines i.. of a request, in cents
RECURSIVE RequestTotal(_, _)
RequestTotal(lines, i) ==
  IF i > Len(lines) THEN 0
  ELSE lines[i].quantity.v * Row(products, lines[i].productId).price + RequestTotal(lines, i + 1)

\* C6: a request answered 201, for user U and lines (P_i, q_i), has added
\* exactly one order, of user U and with total the sum of q_i * price(P_i), and
\* exactly one item row per line, with the line's product and quantity and the
\* product's price.
C6_CreatesOrderAndItems ==
  \A r \in Slots :
    post[r].pc = "done" /\ post[r].status = 201 /\ HasQuantities(post[r].body) =>
      LET lines == post[r].body.items.v
          n == Len(post[r].before[1])
          m == Len(post[r].before[2])
      IN  /\ Len(orders) = n + 1
          /\ SubSeq(orders, 1, n) = post[r].before[1]
          /\ orders[n + 1].userId = post[r].body.userId.v
          /\ orders[n + 1].totalAmount = Dec(RequestTotal(lines, 1))
          /\ Len(orderItems) = m + Len(lines)
          /\ SubSeq(orderItems, 1, m) = post[r].before[2]
          /\ \A l \in 1..Len(lines) :
               /\ orderItems[m + l].orderId = orders[n + 1].id
               /\ orderItems[m + l].productId = lines[l].productId
               /\ orderItems[m + l].quantity = lines[l].quantity.v
               /\ orderItems[m + l].price = Row(products, lines[l].productId).price
          /\ post[r].json = << WithItems(orders[n + 1]) >>

\* quantities 2 and 1 at prices 10.00 and 5.00: a total of 25.00 and two item rows
C6_Witness ==
  \E r \in Slots :
    /\ post[r].pc = "done"
    /\ post[r].status = 201
    /\ Len(post[r].body.items.v) = 2
    /\ post[r].body.items.v[1].quantity = Num(2)
    /\ post[r].body.items.v[2].quantity = Num(1)
    /\ Row(products, post[r].body.items.v[1].productId).price = 1000
    /\ Row(products, post[r].body.items.v[2].productId).price = 500
    /\ Row(orders, post[r].orderId).totalAmount = Dec(2500)
    /\ Len(ItemsOf(post[r].orderId)) = 2

\* the content of a data array whatever the order of its rows: the set of its
\* orders, each with the set of its items
Content(data) ==
  { [order |-> data[o].order, items |-> Range(data[o].items)] : o \in 1..Len(data) }

\* C7: whenever GET /users/:id/orders has answered, GET /users/:id/orders-optimized
\* for the same user on the same rows returns the same total and the same data
\* content: the same orders, each with the same items, each item's product
\* with the same fields.
C7_VariantsAgree ==
  resp.route = "/users/:id/orders" =>
    \A list \in SortedDesc(OrdersOf(resp.id), "createdAt") :
      /\ resp.json.total = Len(list)
      /\ Content(resp.json.data) = Content(UserOrdersOptimized(list))

\* the paginated endpoints and the number of rows each pages over
PaginatedRoutes == { "/users/paginated", "/orders", "/products" }
RowsOf(route) ==
  IF route = "/users/paginated" THEN Len(users)
  ELSE IF route = "/orders" THEN Len(orders) ELSE Len(products)

\* a query parameter that is the text of a number above 0, and that number
IsNumeral(q) ==
  /\ q.k = "text"
  /\ q.v # << >>
  /\ \A i \in 1..Len(q.v) : q.v[i] \in DOMAIN DigitValue
  /\ DigitsValue(q.v, 1, 0) >= 1
NumeralOf(q) == DigitsValue(q.v, 1, 0)

\* the response to a request for page p with page size s
PageRequested ==
  /\ resp.route \in PaginatedRoutes
  /\ IsNumeral(resp.query.page)
  /\ IsNumeral(resp.query.pageSize)

Ceil(n, d) == IF n % d = 0 THEN n \div d ELSE (n \div d) + 1

\* C8 as stated: a request for page p with page size s over N rows is answered
\* with total = N and totalPages = ceil(N / s), and with an empty data array
\* when p is above totalPages.
C8_Original ==
  PageRequested =>
    LET p == NumeralOf(resp.query.page)
        s == NumeralOf(resp.query.pageSize)
        N == RowsOf(resp.route)
    IN  /\ resp.status = 200
        /\ resp.json.total = N
        /\ resp.json.totalPages = Ceil(N, s)
        /\ p > resp.json.totalPages => resp.json.data = << >>

\* C8, amended: a request for page p with page size s over N rows is answered
\* with total = N, the page size min(s, 100) and totalPages = ceil(N / min(s, 100)),
\* and with an empty data array when p is above totalPages.
C8_TotalPages ==
  PageRequested =>
    LET p == NumeralOf(resp.query.page)
        s == NumeralOf(resp.query.pageSize)
        N == RowsOf(resp.route)
    IN  /\ resp.status = 200
        /\ resp.json.total = N
        /\ resp.json.pageSize = Min(s, 100)
        /\ resp.json.totalPages = Ceil(N, Min(s, 100))
        /\ p > resp.json.totalPages => resp.json.data = << >>

\* page 3 of 101 users is asked for with page size 150: two pages of 100, no data
C8_Witness ==
  /\ resp.route = "/users/paginated"
  /\ resp.query = [page |-> Text(<< "3" >>), pageSize |-> Text(<< "1", "5", "0" >>)]
  /\ Len(users) = 101
  /\ resp.status = 200
  /\ resp.json.totalPages = 2
  /\ resp.json.data = << >>

\* C9: whatever page and pageSize a paginated request carries, the row limit
\* used, which is the pageSize reported, is between 1 and 100, the offset is
\* not negative and data holds at most pageSize rows.
C9_LimitInRange ==
  resp.route \in PaginatedRoutes =>
    /\ resp.limit \in 1..100
    /\ resp.offset >= 0
    /\ resp.status = 200
    /\ resp.json.pageSize = resp.limit
    /\ Len(resp.json.data) <= resp.json.pageSize

\* C10: the pages 1..totalPages of GET /users/paginated, taken together, hold
\* exactly the rows GET /users returns, every user once.
C10_PagesCoverUsers ==
  WalkDone =>
    /\ Len(walk.seen) = Len(users)
    /\ Range(walk.seen) = Range(users)

\* an order matches the status and the minimum amount a search query supplies
MatchesFilters(order, query) ==
  /\ Truthy(query.status) => query.status.v = << order.status >>
  /\ Truthy(query.minAmount)
       => ~order.totalAmount.nan /\ order.totalAmount.cents >= 100 * DigitsValue(query.minAmount.v, 1, 0)

\* a response of the order search, and the ids of its orders
Searched == resp.route = "/orders/search"
SearchedIds == { resp.json.data[i].id : i \in 1..Len(resp.json.data) }

\* the ids the search returns for the response's query without its dates
UnboundedIds ==
  LET query == [resp.query EXCEPT !.startDate = Absent, !.endDate = Absent]
      list == SearchOrders(query, "up")
  IN  { list[i].id : i \in 1..Len(list) }

\* the search asked for both dates, and they make a range inside
\* [2020-01-01, now] that is not all of it
NarrowerRange ==
  /\ Searched
  /\ Truthy(resp.query.startDate)
  /\ Truthy(resp.query.endDate)
  /\ Date2020 <= DateOf(resp.query.startDate)
  /\ DateOf(resp.query.startDate) <= DateOf(resp.query.endDate)
  /\ DateOf(resp.query.endDate) <= now
  /\ DateOf(resp.query.startDate) > Date2020 \/ DateOf(resp.query.endDate) < now

\* the search asked for no date: it returns the orders created in
\* [2020-01-01, now] that match the other filters
DefaultWindowApplied ==
  (Searched /\ ~Truthy(resp.query.startDate) /\ ~Truthy(resp.query.endDate))
    => SearchedIds = { order.id : order \in
                         { o \in Range(orders) : /\ Date2020 <= o.createdAt
                                                 /\ o.createdAt <= now
                                                 /\ MatchesFilters(o, resp.query) } }

\* C11, as stated: GET /orders/search without dates returns exactly the orders
\* created in [2020-01-01, now] that match the other filters, and with a
\* narrower range given it returns a strict subset of that result.
C11_Original ==
  /\ DefaultWindowApplied
  /\ NarrowerRange => (SearchedIds \subseteq UnboundedIds /\ SearchedIds # UnboundedIds)

\* C11, amended: GET /orders/search without dates returns exactly the orders
\* created in [2020-01-01, now] that match the other filters, and with a
\* narrower range given it returns a subset of that result, a strict one
\* exactly when an order of that result was created outside the range.
C11_SearchWindow ==
  /\ DefaultWindowApplied
  /\ NarrowerRange
       => /\ SearchedIds \subseteq UnboundedIds
          /\ (SearchedIds # UnboundedIds) <=>
               \E id \in UnboundedIds :
                 ~Between(Row(orders, id).createdAt,
                          [from |-> DateOf(resp.query.startDate),
                           to |-> DateOf(resp.query.endDate)])

\* a search without dates answered with some orders and without others that
\* have another status
C11_Witness ==
  /\ Searched
  /\ ~Truthy(resp.query.startDate)
  /\ ~Truthy(resp.query.endDate)
  /\ Truthy(resp.query.status)
  /\ SearchedIds # { }
  /\ SearchedIds # Ids(orders)

\* C12: GET /users/search/by-date returns exactly the users created in the
\* inclusive window from startDate, or 2020-01-01 when it is unset, to endDate,
\* or the time of the request when it is unset, and total is their number.
C12_UsersInWindow ==
  resp.route = "/users/search/by-date" =>
    LET from == IF resp.query.startDate = Absent THEN Date2020
                ELSE DigitsValue(resp.query.startDate.v, 1, 0)
        to == IF resp.query.endDate = Absent THEN now
              ELSE DigitsValue(resp.query.endDate.v, 1, 0)
        data == resp.json.data
    IN  /\ { data[i].id : i \in 1..Len(data) }
             = { user.id : user \in { u \in Range(users) : from <= u.createdAt /\ u.createdAt <= to } }
        /\ \A i, j \in 1..Len(data) : data[i].id = data[j].id => i = j
        /\ resp.json.total = Len(data)

\* the search without dates, answered after time has passed with every user
C12_Witness ==
  /\ resp.route = "/users/search/by-date"
  /\ resp.query.startDate = Absent
  /\ resp.query.endDate = Absent
  /\ now > StartTime
  /\ resp.json.total = Len(users)
  /\ resp.json.total > 0

\* C13: GET /orders/search with minAmount equal to zero returns the same orders
\* as the same request without minAmount.
C13_ZeroIsNoFilter ==
  (Searched /\ resp.query.minAmount = Text(<< "0" >>)) =>
    LET list == SearchOrders([resp.query EXCEPT !.minAmount = Absent], "up")
    IN  SearchedIds = { list[i].id : i \in 1..Len(list) }

\* a run of the seeder with reset disabled and a run identifier of its own,
\* after an earlier run
AppendingRun ==
  /\ seed.run > 1
  /\ seed.env.SEED_RESET = "false"
  /\ seed.env.SEED_RUN_ID \notin seed.ids

\* C14: a second run of the seeder with reset disabled and a run identifier of
\* its own generates e-mail addresses and category names that differ from
\* those stored when it started and from each other.
C14_NoCollision ==
  (AppendingRun /\ seed.pc = "closed") =>
    /\ Range(seed.categoryNames) \cap { row.name : row \in Range(seed.before.categories) } = { }
    /\ seed.usedEmails \cap { row.email : row \in Range(seed.before.users) } = { }
    /\ \A i, j \in 1..Len(categories) : categories[i].name = categories[j].name => i = j
    /\ \A i, j \in 1..Len(users) : users[i].email = users[j].email => i = j

\* the rows a table held when the seeder started are its first rows now
Kept(was, table) == Len(was) <= Len(table) /\ SubSeq(table, 1, Len(was)) = was

\* C15: a seeder run with reset requested starts generating with the five
\* tables empty; after a run with reset disabled the rows that existed before
\* it are still there, unchanged, followed by the rows it added.
C15_ResetHonoured ==
  /\ (seed.env.SEED_RESET = "true" /\ seed.pc = "categories")
       => << categories, products, users, orders, orderItems >> = << << >>, << >>, << >>, << >>, << >> >>
  /\ (seed.env.SEED_RESET = "false" /\ seed.pc = "closed")
       => /\ Kept(seed.before.categories, categories)
          /\ Kept(seed.before.products, products)
          /\ Kept(seed.before.users, users)
          /\ Kept(seed.before.orders, orders)
          /\ Kept(seed.before.orderItems, orderItems)

\* C16: in every state of a seeding run, every product's categoryId is the id
\* of a category, every order's userId the id of a user, and every order
\* item's orderId and productId the ids of an order and of a product.
C16_ReferencesResolve ==
  /\ \A i \in 1..Len(products) : products[i].categoryId \in Ids(categories)
  /\ \A i \in 1..Len(orders) : orders[i].userId \in Ids(users)
  /\ \A i \in 1..Len(orderItems) :
       /\ orderItems[i].orderId \in Ids(orders)
       /\ orderItems[i].productId \in Ids(products)

\* the seeder has inserted an order's items and has not yet finished
C16_Witness ==
  /\ seed.pc = "totals"
  /\ Len(orderItems) = 2
  /\ Len(products) = 2

\* C17: no step of the seeder, of an order creation or of a read request
\* changes the price of an order item that exists before and after it.
C17_PriceKept ==
  [][\A i \in 1..Len(orderItems), j \in 1..Len(orderItems') :
       orderItems'[j].id = orderItems[i].id => orderItems'[j].price = orderItems[i].price]_vars

\* a seeded item and an item of a created order, after the seeder's update of
\* the totals and the request's commit
C17_Witness ==
  /\ Seeded
  /\ Len(orderItems) = 2
  /\ post[1].status = 201
  /\ resp.route = "/orders/:id"

\* the lookups of one row, and the table each reads
LookupRoutes == { "/users/:id", "/orders/:id", "/orders/:id/full", "/products/:id" }
LookedUp == resp.route \in LookupRoutes /\ "param" \in DOMAIN resp
TableOf(route) ==
  IF route = "/users/:id" THEN users ELSE IF route = "/products/:id" THEN products ELSE orders

\* the id of the request is the id of a row
MatchesRow ==
  /\ \A i \in 1..Len(resp.param.v) : resp.param.v[i] \in DOMAIN DigitValue
  /\ DigitsValue(resp.param.v, 1, 0) \in Ids(TableOf(resp.route))

\* C18: a lookup of one row by an id that matches no row is answered 404 with
\* an error and a message, and a lookup by an id that matches a row is not
\* answered 404.
C18_NotFound ==
  LookedUp =>
    IF MatchesRow THEN resp.status # 404
    ELSE /\ resp.status = 404
         /\ { "error", "message" } \subseteq DOMAIN resp.json

\* C19: GET /products/report-optimized returns one row per product, a row of
\* zeros for a product without order items, the rows in descending order of
\* totalRevenue.
C19_FastReport ==
  resp.route = "/products/report-optimized" =>
    LET data == resp.json.data
    IN  /\ Len(data) = Len(products)
        /\ { data[i].id : i \in 1..Len(data) } = Ids(products)
        /\ \A i \in 1..Len(data) :
             /\ data[i].orderCount
                  = Cardinality({ item \in Range(orderItems) : item.productId = data[i].id })
             /\ data[i].orderCount = 0
                  => data[i].totalSold = 0 /\ data[i].totalRevenue = 0
        /\ \A i, j \in 1..Len(data) : i < j => data[i].totalRevenue >= data[j].totalRevenue

\* a report with a product that was ordered and a product that was not
C19_Witness ==
  /\ resp.route = "/products/report-optimized"
  /\ Len(resp.json.data) = 2
  /\ resp.json.data[1].totalRevenue > 0
  /\ resp.json.data[2].orderCount = 0

\* C20: after seeding, no step of a request changes a user, a category or a
\* product; a step that changes the orders or the order items is the commit of
\* an order creation, which appends one order and, after the items there
\* were, items of that order only; a step that answers a read request changes
\* no row.
C20_OnlyOrderCreationWrites ==
  [][/\ UNCHANGED << categories, products, users >>
     /\ (resp' # NoResp /\ resp' # resp) => UNCHANGED << orders, orderItems >>
     /\ << orders, orderItems >>' # << orders, orderItems >>
          => /\ \E r \in Slots : post[r].pc = "commit" /\ post'[r].pc # "commit"
             /\ Len(orders') = Len(orders) + 1
             /\ SubSeq(orders', 1, Len(orders)) = orders
             /\ orders'[Len(orders')].id \notin Ids(orders)
             /\ Len(orderItems') > Len(orderItems)
             /\ SubSeq(orderItems', 1, Len(orderItems)) = orderItems
             /\ \A i \in (Len(orderItems) + 1)..Len(orderItems') :
                  /\ orderItems'[i].orderId = orders'[Len(orders')].id
                  /\ orderItems'[i].id \notin Ids(orderItems)]_vars

\* a read request answered after an order creation has added its rows
C20_Witness ==
  /\ resp.route = "/users/export/all"
  /\ Len(orders) = 3
  /\ Len(orderItems) = 3
  /\ post[1].status = 201

\* C21: of two order-creation requests made at once for products they share,
\* each is answered 201 once it is done, having added an order of its own (the
\* two ids differ) whose total is the sum of quantity * price over the
\* request's lines and whose items are the request's lines, one row each, and
\* no other.
C21_ConcurrentOrders ==
  /\ \A r \in PairSlots :
       post[r].pc = "done" =>
         LET lines == post[r].body.items.v
             items == ItemsOf(post[r].orderId)
         IN  /\ post[r].status = 201
             /\ Cardinality({ i \in 1..Len(orders) : orders[i].id = post[r].orderId }) = 1
             /\ Row(orders, post[r].orderId).userId = post[r].body.userId.v
             /\ Row(orders, post[r].orderId).totalAmount = Dec(RequestTotal(lines, 1))
             /\ Len(items) = Len(lines)
             /\ \A l \in 1..Len(lines) :
                  /\ items[l].productId = lines[l].productId
                  /\ items[l].quantity = lines[l].quantity.v
                  /\ items[l].price = Row(products, lines[l].productId).price
  /\ (post[1].pc = "done" /\ post[2].pc = "done") =>
       /\ post[1].orderId # post[2].orderId
       /\ \A i, j \in 1..Len(orders) : orders[i].id = orders[j].id => i = j
       /\ \A i, j \in 1..Len(orderItems) : orderItems[i].id = orderItems[j].id => i = j

\* both requests are done, the one that began last having committed first
C21_Witness ==
  /\ post[1].pc = "done"
  /\ post[2].pc = "done"
  /\ post[1].orderId > post[2].orderId
  /\ Row(orders, post[1].orderId) = orders[3]
  /\ post[1].body.items.v[1].productId = post[2].body.items.v[1].productId

\* C22: every stored order item has a quantity of 1 or more.
C22_PositiveQuantities ==
  \A i \in 1..Len(orderItems) : orderItems[i].quantity >= 1

\* C23: the seeder writes an order with the total of its items: no state holds
\* an order that has items and a totalAmount of 0.
C23_TotalBeforePersist ==
  \A i \in 1..Len(orders) :
    ItemsOf(orders[i].id) # << >> => orders[i].totalAmount # Dec(0)

\* C24: in a seeding run a product is stored only once every category is, an
\* order only once every user and every product are, and an order item only
\* once its order is.
C24_DependencyOrder ==
  /\ products # << >> => Len(categories) = config.categories
  /\ orders # << >> => Len(users) = config.users /\ Len(products) = config.products
  /\ \A i \in 1..Len(orderItems) : orderItems[i].orderId \in Ids(orders)

\* the run has created rows of the five kinds and is about to count them
C24_Witness ==
  /\ seed.pc = "summary"
  /\ categories # << >>
  /\ products # << >>
  /\ users # << >>
  /\ orders # << >>
  /\ orderItems # << >>

\* C25: once a seeding run is complete, every order has at least one item and
\* no fewer than itemsPerOrder.min and no more than itemsPerOrder.max, its
\* items are of different products, and every quantity is in 1..5.
C25_ItemsPerOrder ==
  Seeded =>
    \A i \in 1..Len(orders) :
      LET items == ItemsOf(orders[i].id)
      IN  /\ Len(items) >= 1
          /\ Len(items) >= config.itemsPerOrder.min
          /\ Len(items) <= config.itemsPerOrder.max
          /\ \A a, b \in 1..Len(items) : items[a].productId = items[b].productId => a = b
          /\ \A a \in 1..Len(items) : items[a].quantity \in 1..5

\* a complete run whose order has two items, one of them with quantity 5
C25_Witness ==
  /\ Seeded
  /\ Len(orders) = 1
  /\ Len(ItemsOf(orders[1].id)) = 2
  /\ \E a \in 1..Len(orderItems) : orderItems[a].quantity = 5

\* C26: once a statement of the seeder has thrown, the run has ended with the
\* connection closed and the exit status 1, and no step changes the storage
\* afterwards; a run that has succeeded has closed the connection too.
C26_FailureAborts ==
  /\ [](seed.error => seed.pc = "failed" /\ seed.closed /\ seed.exitCode = 1)
  /\ [](seed.pc = "closed" => seed.closed /\ ~seed.error)
  /\ [][seed.error => UNCHANGED << tables, seed >>]_vars

\* the insertion of the items has failed: the orders are there without them
C26_Witness ==
  /\ seed.pc = "failed"
  /\ seed.closed
  /\ orders # << >>
  /\ orderItems = << >>

\* C27: at each of the three sizes a seeding run terminates: once the
\* categories are stored there are exactly as many as the size asks for, with
\* distinct names, and the run reaches the summary and ends.
C27_EverySizeTerminates ==
  /\ [](seed.pc \notin { "start", "categories" } =>
          /\ Len(categories) = config.categories
          /\ \A i, j \in 1..Len(categories) : categories[i].name = categories[j].name => i = j)
  /\ <>(seed.pc = "closed")

\* a request whose items are an array of lines for products that all exist
NamesProducts(body) ==
  /\ body.items.k = "array"
  /\ \A i \in 1..Len(body.items.v) : body.items.v[i].productId \in Ids(products)

\* C28: a valid request whose userId is no user's id, all of its products
\* existing, never changes the stored orders and items, and ends in a failure
\* response.
C28_UnknownUserCreatesNothing ==
  \A r \in Slots :
    ( /\ post[r].pc # "idle"
      /\ ~Invalid(post[r].body)
      /\ post[r].body.userId.v \notin Ids(users)
      /\ NamesProducts(post[r].body) ) =>
      /\ Stored = post[r].before
      /\ post[r].pc = "done" => post[r].status = 500 /\ post[r].tx = NoTx

\* the request for user 99 has looked up its two products, tried to insert the
\* order and failed
C28_Witness ==
  \E r \in Slots :
    /\ post[r].pc = "done"
    /\ post[r].status = 500
    /\ post[r].body.userId.v = 99
    /\ Len(post[r].body.items.v) = 2
    /\ NamesProducts(post[r].body)
    /\ post[r].idx = 3
    /\ serial.orders > Len(orders)

\* every query of the request has been answered
AllFetched ==
  \A o \in 1..Len(fetch.orders) :
    /\ fetch.items[o].k # "pending"
    /\ \A l \in 1..Len(fetch.items[o].v) : fetch.items[o].v[l].product.k # "pending"

\* C29: in whatever order the item and product queries of GET /users/:id/orders
\* complete, the response lists the orders as the first query returned them,
\* newest first, each with items of its own only, each item with the product
\* its productId names, and it is sent only once every query has been answered.
C29_FetchesInAnyOrder ==
  /\ [](fetch.pc = "done" =>
          LET data == fetch.json.data
          IN  /\ Len(data) = Len(fetch.orders)
              /\ fetch.json.total = Len(fetch.orders)
              /\ \A o \in 1..Len(data) :
                   /\ data[o].order = fetch.orders[o]
                   /\ data[o].order.userId = fetch.id
                   /\ \A n \in o..Len(data) : data[o].order.createdAt >= data[n].order.createdAt
                   /\ \A l \in 1..Len(data[o].items) :
                        /\ data[o].items[l].item.orderId = data[o].order.id
                        /\ Len(data[o].items[l].product) = 1
                        /\ data[o].items[l].product[1].id = data[o].items[l].item.productId)
  /\ [][fetch.pc = "fetching" /\ fetch'.pc = "done" => AllFetched]_vars

\* the response for a user with two orders, one of them created by a request
\* that was being served, with three items between them
C29_Witness ==
  /\ fetch.pc = "done"
  /\ Len(fetch.json.data) = 2
  /\ \E o \in 1..2 : fetch.json.data[o].order.id > 2 /\ Len(fetch.json.data[o].items) = 2
  /\ \E o \in 1..2 : Len(fetch.json.data[o].items) = 1

\* the view shows a response to a request for its mode and page
ShowsSelected ==
  \E tie \in TieBreaks :
    LET data == UsersResponse(view.mode, view.page, tie)
    IN  /\ view.users = data.data
        /\ view.total = data.total
        /\ view.totalPages = IF view.mode = "paginated" THEN data.totalPages ELSE 1

\* C30: whatever the order in which the responses of overlapping requests
\* arrive, once none is pending the UserList view is not loading and shows the
\* users, the total and the number of pages of the response for the mode and
\* page it has selected.
C30_ViewShowsSelected ==
  (view.pc = "mounted" /\ view.pending = << >>) => ~view.loading /\ ShowsSelected

====
